---- MODULE Spec2Model ----
(***************************************************************************)
(* State-machine model of the SOLIDS audio engine,                         *)
(* src/src/audio/AudioEngine.ts.  The file holds two builds of the engine: *)
(*   - the class AudioEngine (lines 114-886), one deck, driven by a        *)
(*     requestAnimationFrame state loop;                                   *)
(*   - the React AudioEngineProvider (lines 1194-2323), decks A and B,     *)
(*     driven by media-element events.                                     *)
(* A behaviour runs one of the two builds; `variant` says which.           *)
(*                                                                         *)
(* Units.  Playback times are integers in units of 25 ms, so that          *)
(* MIN_LOOP_GAP (0.05 s) is 2.  performance.now() is counted in half morph *)
(* durations, so a morph frame has progress 0, 1/2 or 1 and the cubic      *)
(* ease-out 1-(1-p)^3 is 0, 7/8 or 1.  Scene parameters are integers in    *)
(* units of 0.05/Unit (rate, echo mix, echo time, echo feedback) and       *)
(* 1/Unit (filter value), so that every interpolated value is an exact     *)
(* integer.                                                                *)
(***************************************************************************)
EXTENDS Integers, Sequences, FiniteSets, TLC

\* ------------------------------------------------------------------ bounds
\* largest playback time of the model
MaxTime == 3
\* most async continuations (awaits, timers) in flight at once
MaxPending == 2
\* latest reading of performance.now(), in halves of a morph duration
MaxNow == 2
\* most requestAnimationFrame calls of the scene morph
MaxFrames == 3
\* most scene morphs started
MaxMorphs == 2

\* most MediaRecorder objects made
MaxRecorders == 2
\* most chunks in recordedChunks
MaxChunks == 2
\* longest recording time published, in seconds
MaxRecTime == 1

\* ------------------------------------------------------- program constants
\* MIN_LOOP_GAP = 0.05 s, in units of 25 ms
MIN_LOOP_GAP == 2
\* the hot cue array has four slots
NUM_HOT_CUES == 4

\* null / undefined of the source
null == -1000
\* the duration of a scene morph (durationMs = 600, duration = 800), in
\* readings of performance.now(): the clock runs in halves of it
MorphTicks == 2

\* the DJ parameters are integers: playbackRate, echoMix, echoTime and
\* echoFeedback in units of 0.05 / Unit, the filter value in units of
\* 1 / Unit. A morph frame multiplies a difference by 1/2 or 7/8, so that
\* with Unit = 8^MaxMorphs every interpolation of the model is exact.
Unit == (MorphTicks ^ 3) ^ MaxMorphs

Min(a, b) == IF a < b THEN a ELSE b
Max(a, b) == IF a > b THEN a ELSE b

\* durations a loaded track can have
Durations == {MaxTime - 1, MaxTime}
\* playback times
Times == 0 .. MaxTime
\* raw times a caller can pass (below 0 and beyond the end included)
TimeInputs == {-1, 1, MaxTime + 1}
\* hot cue indexes a caller passes: the first slot, which stands for the
\* four, and the first index beyond the array
CueIndexes == {0, NUM_HOT_CUES}
CueSlots == 0 .. (NUM_HOT_CUES - 1)

VARIABLES
  variant,          \* "engine": class AudioEngine, "provider": AudioEngineProvider
  lastOp,           \* the operation that ran last and what it returned
  tasks,            \* async continuations in flight: label -> count
  \* ---- class AudioEngine
  audioElement,     \* the <audio> element handed to setAudioElement
  stateLoop,        \* the frame callback of startStateLoop is pending
                    \* (this.animationFrameId names it)
  audioContext,     \* this.audioContext: "null", "suspended", "running",
                    \* "closed"
  contextsMade,     \* number of `new AudioContext()` calls that made
                    \* this.audioContext / audioContextRef.current
  graphBuilt,       \* this.graphBuilt
  sourceNode,       \* number of createMediaElementSource calls on the element
  connections,      \* the edges of the Web Audio graph
  state,            \* this.state
  \* ---- AudioEngineProvider
  audio,            \* audioRefA.current, audioRefB.current
  deck,             \* deckA, deckB: the DeckState of each deck
  sourceNodeRef,    \* createMediaElementSource calls per deck's element
  eqBypass,         \* React state eqBypass
  fxBypass,         \* React state fxBypass
  safeMode,         \* React state safeMode
  dj,               \* React state of the DJ FX: parameters, scenes, morph
  \* ---- scene morph, both builds
  now,              \* performance.now()
  raf,              \* requestAnimationFrame callbacks waiting for a frame
  nextRafId,        \* the id the next requestAnimationFrame returns
  morphAnimationId, \* this.morphAnimationId / morphRafRef.current
  \* ---- mixer and EQ, both builds
  filters,          \* this.filters / filtersRef.current: the live gain of
                    \* each EQ filter node (<<>> until the nodes exist)
  masterGain,       \* the live gain of the master gain node (null: no node)
  deckGain,         \* the live gains of deckGainA and deckGainB (provider)
  mixer,            \* React state crossfader, volume, eqGains (provider)
  \* ---- recording, both builds
  mediaRecorder,    \* the MediaRecorder objects made so far; the last one
                    \* is this.mediaRecorder / mediaRecorderRef.current
  recordedChunks,   \* this.recordedChunks / recordedChunksRef.current
  recordingStartTime, \* this.recordingStartTime (class engine)
  recording,        \* React state isRecording, recordingTime, recordingBlob
                    \* and recordingIntervalRef.current (provider)
  fxNodes,          \* the live DJ filter and echo nodes: the type and
                    \* cutoff of the filter, the delay time, the feedback
                    \* gain and the wet gain (built: the nodes exist)
  \* ---- state snapshots (class engine)
  snapshot,         \* a state object a caller holds: the one subscribe
                    \* delivered or one getState returned, what it read
                    \* when it got it, and the arrays it shares with
                    \* this.state
  \* ---- history
  toggled,          \* deck -> the togglePlay calls made back to back (no
                    \* other call, sync tick or media event since the
                    \* first), and whether the deck was playing before
  cueSetAt,         \* deck, slot -> the deck time at which the slot's cue
                    \* was set on the track now loaded (null: no such cue)
  lastMorph         \* the morph started last: its endpoints and progress

deckVars == <<audioElement, state, audio, deck, cueSetAt>>
graphVars == <<audioContext, graphBuilt, sourceNode, connections>>
providerGraphVars == <<sourceNodeRef, eqBypass, fxBypass, safeMode>>
morphVars == <<dj, now, raf, nextRafId, morphAnimationId, lastMorph>>
eqVars == <<filters, masterGain, deckGain, mixer>>
recVars == <<mediaRecorder, recordedChunks, recordingStartTime, recording>>
vars == <<variant, lastOp, tasks, audioElement, audioContext, graphBuilt,
          sourceNode, connections, state, audio, deck, sourceNodeRef,
          eqBypass, fxBypass, safeMode, cueSetAt, dj, now, raf, nextRafId,
          morphAnimationId, lastMorph, filters, masterGain, deckGain, mixer,
          mediaRecorder, recordedChunks, recordingStartTime, recording,
          snapshot, fxNodes, contextsMade, stateLoop, toggled>>

\* no morph has been started
NoMorph ==
  [target |-> "none", startParams |-> <<>>, endParams |-> <<>>,
   frames |-> 0, progress |-> 0, count |-> 0]

\* an HTMLAudioElement: duration 0 stands for NaN (no metadata yet)
NewAudio(att) ==
  [attached |-> att, hasSrc |-> FALSE, ready |-> FALSE,
   currentTime |-> 0, duration |-> 0, paused |-> TRUE]

NoCues == [i \in CueSlots |-> null]

\* the history keeps the operations the properties below are about
Observed ==
  {"update", "onTimeUpdateA", "loadUrl", "loadFile", "loadFile_resumed",
   "loadUrlA", "loadFileA", "loadFileA_resumed", "buildAudioGraph",
   "startRecording", "startRecordingP", "loadFile_timeout", "destroy"}
\* what a handler that failed returns: an exception or a rejected promise
\* out of it, a rejected playback request it caught and logged, a rejected
\* playback request nobody handles
Failures == {"throws", "rejects", "play failed", "unhandled rejection"}
Did(o, r) ==
  lastOp' = IF o \in Observed \/ r \in Failures
              THEN [op |-> o, ret |-> r, index |-> null, set |-> FALSE]
              ELSE [op |-> "other", ret |-> "void", index |-> null,
                    set |-> FALSE]

\* no togglePlay is the last thing that happened to the deck
NoToggles == [calls |-> 0, wasPlaying |-> FALSE]
\* one more togglePlay of deck d, met with the deck playing or not; 3 calls
\* stand for three or more
Toggled(t, d, playing) ==
  [t EXCEPT ![d] = [calls |-> IF @.calls < 3 THEN @.calls + 1 ELSE 3,
                    wasPlaying |-> IF @.calls = 0 THEN playing
                                                  ELSE @.wasPlaying]]
\* another call, a sync tick or a media event of deck d ends the run
Refreshed(t, d) == [t EXCEPT ![d] = NoToggles]

\* the history of an operation called with the argument arg
DidWith(o, r, a) ==
  lastOp' = [op |-> o, ret |-> r, index |-> null, set |-> FALSE, arg |-> a]

TaskLabels == {"loadFile", "timeout", "play", "loadFileA", "loadFileB",
               "playA", "playB"}
RECURSIVE SumTasks(_, _)
SumTasks(t, ls) ==
  IF ls = {} THEN 0
  ELSE LET l == CHOOSE x \in ls : TRUE IN t[l] + SumTasks(t, ls \ {l})
TotalTasks == SumTasks(tasks, TaskLabels)
Spawn(l) == [tasks EXCEPT ![l] = @ + 1]
Finish(l) == [tasks EXCEPT ![l] = @ - 1]

\* ------------------------------------------------------------- the element
\* element.src = url: the load algorithm resets position, duration and paused
SetSrc(el) ==
  [el EXCEPT !.hasSrc = TRUE, !.ready = FALSE, !.currentTime = 0,
             !.duration = 0, !.paused = TRUE]

\* ------------------------------------------------------ mixer, EQ, blobs
\* band gains are whole dB; volume and crossfader are in units of 0.1
MIN_GAIN == -24
MAX_GAIN == 24
FLAT_GAINS == <<0, 0, 0, 0, 0, 0, 0, 0>>

\* gains[i] of a JavaScript array held as a sequence: undefined beyond it
At(gains, i) == IF i >= 0 /\ i < Len(gains) THEN gains[i + 1] ELSE null
\* gains[i] = value, which lengthens the array when i is beyond its end
SetAt(gains, i, value) ==
  [k \in 1 .. Max(Len(gains), i + 1) |->
     IF k = i + 1 THEN value ELSE At(gains, k - 1)]

\* a Blob is the sequence of the chunks it was made from; recordingBlob is
\* null until a recording has been finalized
NoBlob == [isNull |-> TRUE, parts |-> <<>>]
Blob(chunks) == [isNull |-> FALSE, parts |-> chunks]

\* ---- the platform's MediaRecorder
\* new MediaRecorder(stream, options): inactive; delivered counts the
\* non-empty chunks its dataavailable events have carried
NewRecorder == [state |-> "inactive", stopping |-> FALSE, delivered |-> 0]
\* what the platform does with new MediaRecorder(...) and start(): the
\* constructor throws (mimeType not supported), start throws, or both work
StartOutcomes == {"started", "constructor throws", "start throws"}
\* mediaRecorder.stop(): queues the task that fires dataavailable and stop
Stopped(recorders) ==
  [recorders EXCEPT ![Len(recorders)] =
     [@ EXCEPT !.state = "inactive", !.stopping = TRUE]]
\* the recorders after a startRecording that met the outcome
Started(recorders, outcome) ==
  IF outcome = "constructor throws" THEN recorders
  ELSE IF outcome = "start throws" THEN Append(recorders, NewRecorder)
  ELSE Append(recorders, [NewRecorder EXCEPT !.state = "recording"])

\* an AudioParam of a node that does not exist
NoGain == <<"none", 0>>

\* ===================================================== class AudioEngine
\* this.state after construction (lines 137-171)
DEFAULT_DJ_SCENE ==
  [playbackRate |-> 20 * Unit, djFilterValue |-> 0, echoMix |-> 0,
   echoTime |-> 6 * Unit, echoFeedback |-> 8 * Unit]

InitialState ==
  [audioSrc |-> FALSE, isPlaying |-> FALSE, currentTime |-> 0, duration |-> 0,
   isBypassed |-> FALSE, djBypass |-> FALSE, safeModeEnabled |-> TRUE,
   playbackRate |-> 20 * Unit, djFilterValue |-> 0, echoMix |-> 0,
   echoTime |-> 6 * Unit, echoFeedback |-> 8 * Unit,
   hotCues |-> NoCues, loopIn |-> null, loopOut |-> null,
   loopEnabled |-> FALSE,
   djSceneA |-> DEFAULT_DJ_SCENE, djSceneB |-> DEFAULT_DJ_SCENE,
   activeDjScene |-> "A", isMorphing |-> FALSE, morphProgress |-> 0,
   webAudioConnected |-> FALSE, audioCtxState |-> "not created",
   volume |-> 10, gains |-> FLAT_GAINS, activeSlot |-> "A",
   slotAGains |-> FLAT_GAINS, slotBGains |-> FLAT_GAINS,
   isRecording |-> FALSE, recordingDuration |-> 0, recordingBlob |-> NoBlob]

\* ---- the DJ filter and echo nodes
\* a frequency known exactly, held in Hz / Unit
Hz(n) == <<"hz", n * Unit>>
\* coef * Math.pow(root * root, e / (100 * Unit)), e being the normalized
\* filter value in 1 / (100 * Unit): exact where the exponent is a multiple
\* of one half and the result is a whole number of Hz / Unit, otherwise the
\* power left as a term
Power(coef, root, e) ==
  LET n == e \div (50 * Unit)
  IN  IF e % (50 * Unit) = 0 /\ n >= 0 /\ n <= 4
        THEN <<"hz", coef * Unit * (root ^ n)>>
      ELSE IF e % (50 * Unit) = 0 /\ n < 0 /\ n >= -4
                /\ (coef * Unit) % (root ^ (0 - n)) = 0
        THEN <<"hz", (coef * Unit) \div (root ^ (0 - n))>>
      ELSE <<"pow", coef, root * root, e>>
\* Math.min(freq, cap) of lines 604 and 609: both sweeps reach their cap at
\* the normalized value 1 (200 * 100 = 20000, 20 * 400 = 8000) and grow
\* with it
Capped(freq, e, cap) == IF e >= 100 * Unit THEN Hz(cap) ELSE freq
\* the type and cutoff setDjFilterValue gives the filter (lines 596-611)
filterMapping(value) ==
  IF value = 0 THEN [type |-> "lowpass", frequency |-> Hz(20000)]
  ELSE IF value < 0
    THEN [type |-> "lowpass",
          frequency |-> Capped(Power(200, 10, value + 100 * Unit),
                               value + 100 * Unit, 20000)]
  ELSE [type |-> "highpass",
        frequency |-> Capped(Power(20, 20, value), value, 8000)]
\* the type and cutoff the effect on [filterMacro] gives the filter
\* (lines 1494-1507): 200 + normalized * 19800 and 20 + normalized * 2000
filterMacroMapping(value) ==
  IF value = 0 THEN [type |-> "lowpass", frequency |-> Hz(20000)]
  ELSE IF value < 0
    THEN [type |-> "lowpass",
          frequency |-> <<"hz", 200 * Unit + (value + 100 * Unit) * 198>>]
  ELSE [type |-> "highpass", frequency |-> <<"hz", 20 * Unit + value * 20>>]
\* before the nodes are created
NoFxNodes ==
  [built |-> FALSE, djFilter |-> [type |-> "none", frequency |-> Hz(0)],
   delayTime |-> null, feedbackGain |-> null, mixGain |-> null]
\* the nodes as buildAudioGraph (lines 313-327) and initAudioContext
\* (lines 1342-1360) create them: the filter a lowpass at 20000 Hz
CreatedFxNodes(time, feedback, mix) ==
  [built |-> TRUE,
   djFilter |-> [type |-> "lowpass", frequency |-> Hz(20000)],
   delayTime |-> time, feedbackGain |-> feedback, mixGain |-> mix]
\* `if (this.djFilter) ...`: a write reaches a node that exists
Written(nodes, field, value) ==
  IF nodes.built THEN [nodes EXCEPT ![field] = value] ELSE nodes
\* the node writes of the four FX setters called by applyDjParams
\* (lines 717-720)
AppliedToNodes(nodes, params) ==
  Written(Written(Written(Written(nodes,
    "djFilter", filterMapping(params.djFilterValue)),
    "mixGain", params.echoMix),
    "delayTime", params.echoTime),
    "feedbackGain", params.echoFeedback)
\* the effects on [filterMacro], [echoTime], [echoFeedback] and [echoMix]
\* (lines 1490-1526): each runs when its value has changed
EffectsOn(nodes, old, new) ==
  LET n1 == IF new.filterMacro # old.filterMacro
              THEN Written(nodes, "djFilter",
                           filterMacroMapping(new.filterMacro))
              ELSE nodes
      n2 == IF new.echoTime # old.echoTime
              THEN Written(n1, "delayTime", new.echoTime) ELSE n1
      n3 == IF new.echoFeedback # old.echoFeedback
              THEN Written(n2, "feedbackGain", new.echoFeedback) ELSE n2
  IN  IF new.echoMix # old.echoMix
        THEN Written(n3, "mixGain", new.echoMix) ELSE n3

\* ---- state snapshots (lines 233-245)
\* the fields of the state that hold arrays: a copy { ...this.state } holds
\* the same array objects as this.state
ArrayFields == {"hotCues", "gains", "slotAGains", "slotBGains"}
\* nobody holds a state object yet
NoSnapshot ==
  [taken |-> FALSE, live |-> FALSE, seen |-> InitialState,
   own |-> InitialState, shares |-> {}]
\* listener(this.state) (line 235): the caller holds this.state itself
LiveState(st) ==
  [taken |-> TRUE, live |-> TRUE, seen |-> st, own |-> st,
   shares |-> ArrayFields]
\* { ...this.state } (lines 240 and 244): own scalar fields, shared arrays
ShallowCopy(st) ==
  [taken |-> TRUE, live |-> FALSE, seen |-> st, own |-> st,
   shares |-> ArrayFields]
\* this.state.f = [...] for the fields fs: the held object keeps the old
\* arrays, with what they held at that moment
Reassigned(snap, st, fs) ==
  IF ~snap.taken \/ snap.live THEN snap
  ELSE [snap EXCEPT
          !.own = [f \in DOMAIN snap.own |->
                     IF f \in (fs \cap snap.shares) THEN st[f]
                     ELSE snap.own[f]],
          !.shares = @ \ fs]
\* what the held object reads now
Reads(snap, st) ==
  IF snap.live THEN st
  ELSE [f \in DOMAIN snap.own |->
          IF f \in snap.shares THEN st[f] ELSE snap.own[f]]

\* ---- the Web Audio graph of the class engine
EQ_BANDS == 8
FilterNames ==
  <<"filter0", "filter1", "filter2", "filter3",
    "filter4", "filter5", "filter6", "filter7">>
Filter(i) == FilterNames[i + 1]
FirstFilter == Filter(0)
LastFilter == Filter(EQ_BANDS - 1)

\* node.disconnect(): drops every outgoing edge of the node
Disconnect(conns, n) == {e \in conns : e[1] # n}

\* the chain filters[i] -> filters[i+1] made by buildAudioGraph (lines 308-311)
FilterChain == {<<Filter(i), Filter(i + 1)>> : i \in 0 .. (EQ_BANDS - 2)}

\* connectGraph (lines 361-415) on the connection set conns with state st
ConnectGraph(conns, st) ==
  LET d1 == Disconnect(conns, "sourceNode")
      d2 == Disconnect(d1, LastFilter)
      d3 == Disconnect(d2, "djFilter")
      d4 == Disconnect(d3, "echoDryGain")
      d5 == Disconnect(d4, "echoDelay")
      d6 == Disconnect(d5, "echoMixGain")
      d7 == Disconnect(d6, "echoFeedbackGain")
      d8 == Disconnect(d7, "preCompressorGain")
      d9 == Disconnect(d8, "compressor")
      d10 == Disconnect(d9, "masterGain")
      eq == IF st.isBypassed
              THEN {<<"sourceNode", "djFilter">>}
              ELSE {<<"sourceNode", FirstFilter>>, <<LastFilter, "djFilter">>}
      fx == IF st.djBypass
              THEN {<<"djFilter", "preCompressorGain">>}
              ELSE {<<"djFilter", "echoDryGain">>, <<"djFilter", "echoDelay">>,
                    <<"echoDelay", "echoMixGain">>,
                    <<"echoDelay", "echoFeedbackGain">>,
                    <<"echoFeedbackGain", "echoDelay">>,
                    <<"echoDryGain", "preCompressorGain">>,
                    <<"echoMixGain", "preCompressorGain">>}
      safe == IF st.safeModeEnabled
                THEN {<<"preCompressorGain", "compressor">>,
                      <<"compressor", "masterGain">>}
                ELSE {<<"preCompressorGain", "masterGain">>}
      out == {<<"masterGain", "destination">>,
              <<"masterGain", "mediaStreamDest">>}
  IN  d10 \cup eq \cup fx \cup safe \cup out

\* this.connectGraph() as called by the setters (guard of lines 361-362): a
\* no-op until the source node and the nodes of the graph exist
connectGraphUnguarded(conns, st, src) == ConnectGraph(conns, st)
connectGraph(conns, st, src) ==
  IF src = 0 \/ masterGain = null THEN conns ELSE ConnectGraph(conns, st)

\* buildAudioGraph (lines 281-359): the effect on <<graphBuilt, sourceNode,
\* connections, state>>, given the element, the context and the built flag
BuildGuardNoFlag(el, ctx, built) == el.attached /\ ctx # "null"
BuildGuard(el, ctx, built) == el.attached /\ ctx # "null" /\ ~built

\* createMediaElementSource throws on an element that has a source node, and
\* filter.gain.value = undefined (line 304) throws a TypeError: either way
\* the build ends there, after the call that made or tried the source node.
\* sourceNode counts the calls of createMediaElementSource; 2 stands for two
\* or more
BuiltGraph(el, ctx, built, src, conns, st) ==
  IF ~BuildGuard(el, ctx, built)
    THEN [graphBuilt |-> built, sourceNode |-> src, connections |-> conns,
          state |-> st, filters |-> filters, masterGain |-> masterGain,
          fxNodes |-> fxNodes, thrown |-> FALSE]
  ELSE IF src > 0 \/ \E i \in 0 .. (EQ_BANDS - 1) : At(st.gains, i) = null
    THEN [graphBuilt |-> built, sourceNode |-> Min(src + 1, 2),
          connections |-> conns, state |-> st, filters |-> filters,
          masterGain |-> masterGain, fxNodes |-> fxNodes,
          thrown |-> TRUE]
  ELSE [graphBuilt |-> TRUE, sourceNode |-> src + 1,
        connections |-> ConnectGraph(conns \cup FilterChain, st),
        state |-> [st EXCEPT !.webAudioConnected = TRUE],
        filters |-> [i \in 1 .. EQ_BANDS |-> st.gains[i]],
        masterGain |-> st.volume,
        fxNodes |-> CreatedFxNodes(st.echoTime, st.echoFeedback, st.echoMix),
        thrown |-> FALSE]

\* ---- AudioContext
\* ensureAudioContext up to its await (lines 262-265): creates the context
CreateContext(ctx) == IF ctx = "null" THEN "suspended" ELSE ctx
\* the `new AudioContext()` calls made so far, after one more call of
\* ensureAudioContext / initAudioContext (lines 262-265, 1280-1283); 2
\* stands for two or more
ContextsMadeUnguarded(ctx, made) == Min(made + 1, 2)
ContextsMade(ctx, made) == IF ctx = "null" THEN Min(made + 1, 2) ELSE made
\* outcomes of `await this.audioContext.resume()` (lines 267-274)
\* on a closed context resume() rejects and the state stays "closed"
ResumeOutcomes(ctx) ==
  IF ctx = "running" THEN {"running"}
  ELSE IF ctx = "closed" THEN {"closed"}
  ELSE {"running", "suspended"}

\* ---- actions of the class engine
IsEngine == variant = "engine"

\* setAudioElement (lines 247-259)
setAudioElement ==
  /\ IsEngine /\ ~audioElement.attached
  /\ audioElement' = [audioElement EXCEPT !.attached = TRUE]
  /\ Did("setAudioElement", "void")
  /\ toggled' = Refreshed(toggled, "A")
  /\ UNCHANGED <<variant, stateLoop, contextsMade, fxNodes, snapshot, eqVars, recVars, morphVars, providerGraphVars, tasks, graphVars, state, audio, deck, cueSetAt>>

\* subscribe (lines 233-237): the listener is handed this.state
subscribe ==
  /\ IsEngine
  /\ snapshot' = LiveState(state)
  /\ Did("subscribe", "void")
  /\ UNCHANGED <<variant, toggled, stateLoop, contextsMade, fxNodes, eqVars, recVars, morphVars, providerGraphVars,
                 tasks, graphVars, deckVars>>

\* getState (lines 243-245); notifyListeners (lines 239-241) hands every
\* listener the same kind of copy at the end of an operation
getState ==
  /\ IsEngine
  /\ snapshot' = ShallowCopy(state)
  /\ Did("getState", "void")
  /\ UNCHANGED <<variant, toggled, stateLoop, contextsMade, fxNodes, eqVars, recVars, morphVars, providerGraphVars,
                 tasks, graphVars, deckVars>>

\* the element's loadedmetadata event and its listener (lines 250-253)
loadedmetadata ==
  /\ IsEngine /\ audioElement.attached
  /\ audioElement.hasSrc /\ ~audioElement.ready
  /\ \E d \in Durations :
       /\ audioElement' = [audioElement EXCEPT !.ready = TRUE, !.duration = d]
       /\ state' = [state EXCEPT !.duration = d]
  /\ Did("loadedmetadata", "void")
  /\ toggled' = Refreshed(toggled, "A")
  /\ UNCHANGED <<variant, stateLoop, contextsMade, fxNodes, snapshot, eqVars, recVars, morphVars, providerGraphVars, tasks, graphVars, audio, deck, cueSetAt>>

\* the media clock: playback advances the element's position on its own
playback ==
  /\ IsEngine /\ audioElement.attached /\ audioElement.ready
  /\ ~audioElement.paused
  /\ audioElement.currentTime < audioElement.duration
  /\ audioElement' = [audioElement EXCEPT !.currentTime = @ + 1]
  /\ Did("playback", "void")
  /\ UNCHANGED <<variant, toggled, stateLoop, contextsMade, fxNodes, snapshot, eqVars, recVars, morphVars, providerGraphVars, tasks, graphVars, state, audio, deck, cueSetAt>>

\* one frame of startStateLoop (lines 178-228)
LoopWrapsStrict(st, newTime) ==
  /\ st.loopEnabled /\ st.loopIn # null /\ st.loopOut # null
  /\ newTime > st.loopOut
LoopWraps(st, newTime) ==
  /\ st.loopEnabled /\ st.loopIn # null /\ st.loopOut # null
  /\ newTime >= st.loopOut

\* the history of a frame of the state loop that made n calls of
\* notifyListeners
DidUpdate(n) ==
  lastOp' = [op |-> "update", ret |-> "void", index |-> null, set |-> FALSE,
             notified |-> n]
\* `changed` without the test of the play flag
ChangedTimes(st, newTime, newDuration, newPlaying, newRecDur) ==
  \/ st.currentTime # newTime
  \/ st.duration # newDuration
  \/ st.recordingDuration # newRecDur
\* `changed` of lines 184-208
Changed(st, newTime, newDuration, newPlaying, newRecDur) ==
  \/ st.currentTime # newTime
  \/ st.duration # newDuration
  \/ st.isPlaying # newPlaying
  \/ st.recordingDuration # newRecDur
\* the test of lines 219-225 on the state of the context
ContextChanged(st, ctx) == ctx # "null" /\ st.audioCtxState # ctx

\* audioElement.duration as a script reads it: NaN until the metadata of
\* the source has loaded
NaN == -2000
DurationOf(el) == IF el.ready THEN el.duration ELSE NaN
\* isFinite(duration) ? duration : 0 (line 181)
FiniteOrZero(x) == IF x = NaN THEN 0 ELSE x

\* a frame met with neither element nor context only schedules the next
update ==
  /\ IsEngine /\ stateLoop
  /\ audioElement.attached \/ audioContext # "null"
  /\ LET newTime == audioElement.currentTime
         newDuration == FiniteOrZero(DurationOf(audioElement))
         newPlaying == ~audioElement.paused
         newRecDurs == IF state.isRecording /\ recordingStartTime > 0
                         THEN state.recordingDuration .. MaxRecTime
                         ELSE {state.recordingDuration}
     IN  /\ \E newRecDur \in newRecDurs :
              LET sampled == IF audioElement.attached
                               THEN [state EXCEPT
                                       !.currentTime = newTime,
                                       !.duration = newDuration,
                                       !.isPlaying = newPlaying,
                                       !.recordingDuration = newRecDur]
                               ELSE state
                  changed == /\ audioElement.attached
                             /\ Changed(state, newTime, newDuration,
                                        newPlaying, newRecDur)
                  ctxChanged == ContextChanged(state, audioContext)
              IN  /\ state' = IF ctxChanged
                                THEN [sampled EXCEPT
                                        !.audioCtxState = audioContext]
                                ELSE sampled
                  /\ DidUpdate((IF changed THEN 1 ELSE 0)
                                 + (IF ctxChanged THEN 1 ELSE 0))
         /\ audioElement' =
              IF audioElement.attached /\ LoopWraps(state, newTime)
                THEN [audioElement EXCEPT !.currentTime = state.loopIn]
                ELSE audioElement
  /\ toggled' = Refreshed(toggled, "A")
  /\ UNCHANGED <<variant, stateLoop, contextsMade, fxNodes, snapshot, eqVars, recVars, morphVars, providerGraphVars, tasks, graphVars, audio, deck, cueSetAt>>

\* loadUrl (lines 452-464)
LoadedState(st) ==
  [st EXCEPT !.audioSrc = TRUE, !.currentTime = 0, !.isPlaying = FALSE]

loadUrl ==
  /\ IsEngine
  /\ state' = LoadedState(state)
  /\ audioElement' = IF audioElement.attached THEN SetSrc(audioElement)
                                              ELSE audioElement
  /\ cueSetAt' = [cueSetAt EXCEPT !.A = NoCues]
  /\ Did("loadUrl", "void")
  /\ toggled' = Refreshed(toggled, "A")
  /\ UNCHANGED <<variant, stateLoop, contextsMade, fxNodes, snapshot, eqVars, recVars, morphVars, providerGraphVars, tasks, graphVars, audio, deck>>

\* loadFile up to `await this.ensureAudioContext()` (lines 418-429)
loadFile ==
  /\ IsEngine /\ TotalTasks < MaxPending
  /\ state' = LoadedState(state)
  /\ audioElement' = IF audioElement.attached THEN SetSrc(audioElement)
                                              ELSE audioElement
  /\ audioContext' = CreateContext(audioContext)
  /\ contextsMade' = ContextsMade(audioContext, contextsMade)
  /\ tasks' = Spawn("loadFile")
  /\ cueSetAt' = [cueSetAt EXCEPT !.A = NoCues]
  /\ Did("loadFile", "void")
  /\ toggled' = Refreshed(toggled, "A")
  /\ UNCHANGED <<variant, stateLoop, fxNodes, snapshot, eqVars, recVars, morphVars, providerGraphVars, graphBuilt, sourceNode, connections, audio, deck>>

\* loadFile after the await: schedules the deferred build (lines 431-435)
loadFile_resumed ==
  /\ IsEngine /\ tasks["loadFile"] > 0
  /\ \E c \in ResumeOutcomes(audioContext) :
       /\ audioContext' = c
       /\ state' = [state EXCEPT !.audioCtxState = c]
  /\ tasks' = [tasks EXCEPT !["loadFile"] = @ - 1, !["timeout"] = @ + 1]
  /\ Did("loadFile_resumed", "void")
  /\ UNCHANGED <<variant, toggled, stateLoop, contextsMade, fxNodes, snapshot, eqVars, recVars, morphVars, providerGraphVars, graphBuilt, sourceNode, connections, audioElement, audio, deck, cueSetAt>>

\* the setTimeout callback of loadFile (lines 431-435)
loadFile_timeout ==
  /\ IsEngine /\ tasks["timeout"] > 0
  /\ LET b == BuiltGraph(audioElement, audioContext, graphBuilt, sourceNode,
                         connections, state)
     IN  /\ graphBuilt' = b.graphBuilt
         /\ sourceNode' = b.sourceNode
         /\ connections' = b.connections
         /\ state' = b.state
         /\ filters' = b.filters
         /\ masterGain' = b.masterGain
         /\ fxNodes' = b.fxNodes
  /\ tasks' = Finish("timeout")
  /\ Did("loadFile_timeout", "void")
  /\ UNCHANGED <<variant, toggled, stateLoop, contextsMade, snapshot, deckGain, mixer, recVars, morphVars, providerGraphVars, audioContext, audioElement, audio, deck, cueSetAt>>

\* buildAudioGraph called directly (lines 281-359)
buildAudioGraph ==
  /\ IsEngine
  /\ LET b == BuiltGraph(audioElement, audioContext, graphBuilt, sourceNode,
                         connections, state)
     IN  /\ graphBuilt' = b.graphBuilt
         /\ sourceNode' = b.sourceNode
         /\ connections' = b.connections
         /\ state' = b.state
         /\ filters' = b.filters
         /\ masterGain' = b.masterGain
         /\ fxNodes' = b.fxNodes
         /\ Did("buildAudioGraph", IF graphBuilt THEN "already built"
                                   ELSE IF b.thrown THEN "throws"
                                   ELSE "void")
  /\ UNCHANGED <<variant, toggled, stateLoop, contextsMade, snapshot, deckGain, mixer, recVars, morphVars, providerGraphVars, tasks, audioContext, audioElement, audio, deck, cueSetAt>>

\* play up to `await this.ensureAudioContext()` (lines 467-470)
playAfter(history) ==
  /\ IsEngine
  /\ IF audioElement.attached /\ state.audioSrc
       THEN /\ TotalTasks < MaxPending
            /\ audioContext' = CreateContext(audioContext)
            /\ contextsMade' = ContextsMade(audioContext, contextsMade)
            /\ tasks' = Spawn("play")
       ELSE UNCHANGED <<audioContext, contextsMade, tasks>>
  /\ Did("play", "void")
  /\ toggled' = history
  /\ UNCHANGED <<variant, stateLoop, fxNodes, snapshot, eqVars, recVars, morphVars, providerGraphVars, graphBuilt, sourceNode, connections, deckVars>>

play == playAfter(Refreshed(toggled, "A"))

\* pause (lines 482-484)
pauseAfter(history) ==
  /\ IsEngine
  /\ audioElement' = IF audioElement.attached
                       THEN [audioElement EXCEPT !.paused = TRUE]
                       ELSE audioElement
  /\ Did("pause", "void")
  /\ toggled' = history
  /\ UNCHANGED <<variant, stateLoop, contextsMade, fxNodes, snapshot, eqVars, recVars, morphVars, providerGraphVars, tasks, graphVars,
                 state, audio, deck, cueSetAt>>

pause == pauseAfter(Refreshed(toggled, "A"))

\* togglePlay (lines 486-492): decides on the published isPlaying
togglePlay ==
  LET history == Toggled(toggled, "A",
                         audioElement.attached /\ ~audioElement.paused)
  IN  IF state.isPlaying THEN pauseAfter(history) ELSE playAfter(history)

\* play after the await: build, then audioElement.play() (lines 471-479);
\* the platform grants or rejects the playback request, and the rejection is
\* caught; an exception of buildAudioGraph is not
play_resumed ==
  /\ IsEngine /\ tasks["play"] > 0
  /\ \E c \in ResumeOutcomes(audioContext), granted \in BOOLEAN :
       LET b == BuiltGraph(audioElement, c, graphBuilt, sourceNode,
                           connections,
                           [state EXCEPT !.audioCtxState = c])
       IN  /\ audioContext' = c
           /\ graphBuilt' = b.graphBuilt
           /\ sourceNode' = b.sourceNode
           /\ connections' = b.connections
           /\ state' = b.state
           /\ filters' = b.filters
           /\ masterGain' = b.masterGain
           /\ fxNodes' = b.fxNodes
           /\ audioElement' = IF granted /\ ~b.thrown
                                THEN [audioElement EXCEPT !.paused = FALSE]
                                ELSE audioElement
           /\ Did("play_resumed", IF b.thrown THEN "rejects"
                                  ELSE IF granted THEN "void"
                                  ELSE "play failed")
  /\ tasks' = Finish("play")
  /\ UNCHANGED <<variant, toggled, stateLoop, contextsMade, snapshot, deckGain, mixer, recVars, morphVars, providerGraphVars, audio, deck, cueSetAt>>

\* seek (lines 494-501): `this.state.duration || 0` is the duration
SeekTargetNoFloor(time, duration) == Min(time, duration)
SeekTarget(time, duration) == Max(0, Min(time, duration))

SeekPublishedOnly(el, st, time) ==
  IF el.attached
    THEN [el |-> el,
          st |-> [st EXCEPT !.currentTime = SeekTarget(time, st.duration)]]
    ELSE [el |-> el, st |-> st]
Seek(el, st, time) ==
  IF el.attached
    THEN [el |-> [el EXCEPT !.currentTime = SeekTarget(time, st.duration)],
          st |-> [st EXCEPT !.currentTime = SeekTarget(time, st.duration)]]
    ELSE [el |-> el, st |-> st]

seek ==
  /\ IsEngine
  /\ \E time \in TimeInputs :
       /\ audioElement' = Seek(audioElement, state, time).el
       /\ state' = Seek(audioElement, state, time).st
       /\ DidWith("seek", "void", time)
  /\ UNCHANGED <<variant, toggled, stateLoop, contextsMade, fxNodes, snapshot, eqVars, recVars, morphVars, providerGraphVars, tasks, graphVars, audio, deck, cueSetAt>>

\* seconds a caller passes to skipBackward / skipForward
SkipInputs == {1, MaxTime + 1}

\* skipBackward (lines 503-505)
skipBackward ==
  /\ IsEngine
  /\ \E seconds \in SkipInputs :
       LET r == Seek(audioElement, state, state.currentTime - seconds)
       IN  /\ audioElement' = r.el
           /\ state' = r.st
           /\ DidWith("skipBackward", "void", seconds)
  /\ UNCHANGED <<variant, toggled, stateLoop, contextsMade, fxNodes, snapshot, eqVars, recVars, morphVars, providerGraphVars, tasks, graphVars, audio, deck, cueSetAt>>

\* skipForward (lines 507-509)
skipForward ==
  /\ IsEngine
  /\ \E seconds \in SkipInputs :
       LET r == Seek(audioElement, state, state.currentTime + seconds)
       IN  /\ audioElement' = r.el
           /\ state' = r.st
           /\ DidWith("skipForward", "void", seconds)
  /\ UNCHANGED <<variant, toggled, stateLoop, contextsMade, fxNodes, snapshot, eqVars, recVars, morphVars, providerGraphVars, tasks, graphVars, audio, deck, cueSetAt>>

\* ---- hot cues of the class engine
\* setHotCue (lines 647-655)
setHotCueAt(index) ==
  /\ IsEngine
  /\ IF index >= 0 /\ index < 4
       THEN /\ state' = [state EXCEPT !.hotCues[index] = state.currentTime]
            /\ cueSetAt' = [cueSetAt EXCEPT !.A[index] = state.currentTime]
       ELSE UNCHANGED <<state, cueSetAt>>
  /\ Did("setHotCue", "void")
  /\ UNCHANGED <<variant, toggled, stateLoop, contextsMade, fxNodes, snapshot, eqVars, recVars, morphVars, providerGraphVars, tasks, graphVars, audioElement, audio, deck>>

setHotCue == \E index \in CueIndexes : setHotCueAt(index)

\* this.state.hotCues[index]: undefined outside the array
CueOf(hotCues, index) ==
  IF index \in DOMAIN hotCues THEN hotCues[index] ELSE null

\* triggerHotCue (lines 657-662): declared void, it returns nothing
triggerHotCue ==
  /\ IsEngine
  /\ \E index \in CueIndexes :
       LET cue == CueOf(state.hotCues, index)
       IN  /\ IF cue # null
                THEN /\ audioElement' = Seek(audioElement, state, cue).el
                     /\ state' = Seek(audioElement, state, cue).st
                ELSE UNCHANGED <<audioElement, state>>
           /\ lastOp' = [op |-> "triggerHotCue", ret |-> "void",
                         index |-> index, set |-> cue # null]
  /\ UNCHANGED <<variant, toggled, stateLoop, contextsMade, fxNodes, snapshot, eqVars, recVars, morphVars, providerGraphVars, tasks, graphVars, audio, deck, cueSetAt>>

\* clearHotCue (lines 664-669)
clearHotCueAt(index) ==
  /\ IsEngine
  /\ IF index >= 0 /\ index < 4
       THEN /\ state' = [state EXCEPT !.hotCues[index] = null]
            /\ cueSetAt' = [cueSetAt EXCEPT !.A[index] = null]
       ELSE UNCHANGED <<state, cueSetAt>>
  /\ Did("clearHotCue", "void")
  /\ UNCHANGED <<variant, toggled, stateLoop, contextsMade, fxNodes, snapshot, eqVars, recVars, morphVars, providerGraphVars, tasks, graphVars, audioElement, audio, deck>>

clearHotCue == \E index \in CueIndexes : clearHotCueAt(index)

\* ---- volume and EQ of the class engine
\* levels a caller passes as volume or crossfader: -0.5, 0.5, 1.5
LevelInputs == {-5, 5, 15}
\* band indexes a caller passes: the first band, which stands for the
\* eight, and the first index beyond the filters
BandIndexes == {0, EQ_BANDS}
\* band gains a caller passes, in dB: one in range, one above MAX_GAIN
GainInputs == {6, 30}
\* gain vectors a caller passes: one band only, 'Bass Boost' (line 16), and
\* nine bands
GainVectors ==
  {<<6>>, <<6, 3, -1, 0, 1, 2, 2, 1>>, <<0, 0, 0, 0, 0, 0, 0, 0, 3>>}

\* setVolume (lines 512-521): audioElement.volume = vol throws an
\* IndexSizeError outside [0, 1], after the state and the node are written
setVolume ==
  /\ IsEngine
  /\ \E vol \in LevelInputs :
       /\ state' = [state EXCEPT !.volume = vol]
       /\ masterGain' = IF masterGain # null THEN vol ELSE masterGain
       /\ Did("setVolume",
              IF audioElement.attached /\ (vol < 0 \/ vol > 10)
                THEN "throws" ELSE "void")
  /\ UNCHANGED <<variant, toggled, stateLoop, contextsMade, fxNodes, snapshot, filters, deckGain, mixer, recVars, morphVars,
                 providerGraphVars, tasks, graphVars, audioElement, audio,
                 deck, cueSetAt>>

\* filters.forEach with a write per filter: the values live after it, when
\* the write of an undefined value throws and ends the forEach
WriteFilters(live, gains) ==
  [i \in 1 .. Len(live) |->
     IF \A k \in 0 .. (i - 1) : At(gains, k) # null THEN gains[i]
     ELSE live[i]]

\* setBandGain (lines 524-539)
setBandGainTo(index, value) ==
  /\ IsEngine
  /\ IF index >= 0 /\ index < Len(state.gains)
         THEN /\ state' =
                   IF state.activeSlot = "A"
                     THEN [state EXCEPT
                             !.gains = SetAt(@, index, value),
                             !.slotAGains = SetAt(@, index, value)]
                     ELSE [state EXCEPT
                             !.gains = SetAt(@, index, value),
                             !.slotBGains = SetAt(@, index, value)]
              /\ filters' = IF index < Len(filters)
                              THEN [filters EXCEPT ![index + 1] = value]
                              ELSE filters
         ELSE UNCHANGED <<state, filters>>
  /\ Did("setBandGain", "void")
  /\ UNCHANGED <<variant, toggled, stateLoop, contextsMade, fxNodes, snapshot, masterGain, deckGain, mixer, recVars, morphVars,
                 providerGraphVars, tasks, graphVars, audioElement, audio,
                 deck, cueSetAt>>

setBandGain ==
  \E index \in BandIndexes, value \in GainInputs :
    setBandGainTo(index, value)

\* setAllGains (lines 541-556): a filter whose gains[i] is undefined keeps
\* its gain
setAllGains ==
  /\ IsEngine
  /\ \E gains \in GainVectors :
       /\ state' = IF state.activeSlot = "A"
                     THEN [state EXCEPT !.gains = gains, !.slotAGains = gains]
                     ELSE [state EXCEPT !.gains = gains, !.slotBGains = gains]
       /\ filters' = [i \in 1 .. Len(filters) |->
                        IF At(gains, i - 1) # null THEN gains[i]
                        ELSE filters[i]]
  /\ snapshot' = Reassigned(snapshot, state,
                           {"gains", IF state.activeSlot = "A"
                                       THEN "slotAGains" ELSE "slotBGains"})
  /\ Did("setAllGains", "void")
  /\ UNCHANGED <<variant, toggled, stateLoop, contextsMade, fxNodes, masterGain, deckGain, mixer, recVars, morphVars,
                 providerGraphVars, tasks, graphVars, audioElement, audio,
                 deck, cueSetAt>>

\* switchSlot (lines 564-582): the filter writes have no undefined test
SwitchedSlot(st, live, slot) ==
  IF slot = st.activeSlot THEN [state |-> st, filters |-> live]
  ELSE LET saved == IF st.activeSlot = "A"
                      THEN [st EXCEPT !.slotAGains = st.gains]
                      ELSE [st EXCEPT !.slotBGains = st.gains]
           newGains == IF slot = "A" THEN saved.slotAGains
                                     ELSE saved.slotBGains
       IN  [state |-> [saved EXCEPT !.gains = newGains, !.activeSlot = slot],
            filters |-> WriteFilters(live, newGains)]

switchSlot ==
  /\ IsEngine
  /\ \E slot \in {"A", "B"} :
       IF slot = state.activeSlot
         THEN /\ UNCHANGED <<state, filters, snapshot>>
              /\ Did("switchSlot", "void")
         ELSE LET newGains == SwitchedSlot(state, filters, slot).state.gains
              IN  /\ state' = SwitchedSlot(state, filters, slot).state
                  /\ filters' = SwitchedSlot(state, filters, slot).filters
                  /\ snapshot' =
                       Reassigned(snapshot, state,
                                  {"gains", IF state.activeSlot = "A"
                                              THEN "slotAGains"
                                              ELSE "slotBGains"})
                  /\ Did("switchSlot",
                         IF \E i \in 0 .. (Len(filters) - 1) :
                              At(newGains, i) = null
                           THEN "throws" ELSE "void")
  /\ UNCHANGED <<variant, toggled, stateLoop, contextsMade, fxNodes, masterGain, deckGain, mixer, recVars, morphVars,
                 providerGraphVars, tasks, graphVars, audioElement, audio,
                 deck, cueSetAt>>

\* ---- recording of the class engine
\* startRecording (lines 808-840): the sink is made by buildAudioGraph; what
\* the try block did before the platform threw stays done
startRecording ==
  /\ IsEngine
  /\ IF ~graphBuilt \/ state.isRecording
       THEN /\ UNCHANGED <<state, recVars>>
            /\ Did("startRecording", "void")
       ELSE /\ Len(mediaRecorder) < MaxRecorders
            /\ \E outcome \in StartOutcomes :
                 /\ recordedChunks' = <<>>
                 /\ mediaRecorder' = Started(mediaRecorder, outcome)
                 /\ IF outcome = "started"
                      THEN /\ recordingStartTime' = 1
                           /\ state' = [state EXCEPT
                                          !.isRecording = TRUE,
                                          !.recordingDuration = 0,
                                          !.recordingBlob = NoBlob]
                      ELSE UNCHANGED <<recordingStartTime, state>>
                 /\ Did("startRecording",
                        IF outcome = "started" THEN "void" ELSE "alert")
            /\ UNCHANGED recording
  /\ UNCHANGED <<variant, toggled, stateLoop, contextsMade, fxNodes, snapshot, eqVars, morphVars, providerGraphVars, tasks,
                 graphVars, audioElement, audio, deck, cueSetAt>>

\* stopRecording (lines 842-847); stop() on a recorder that is inactive,
\* its stop event still to come, returns or throws an InvalidStateError,
\* as the platform has it
stopRecording ==
  /\ IsEngine
  /\ IF mediaRecorder # <<>> /\ state.isRecording
       THEN IF mediaRecorder[Len(mediaRecorder)].state = "recording"
              THEN /\ mediaRecorder' = Stopped(mediaRecorder)
                   /\ recordingStartTime' = 0
                   /\ Did("stopRecording", "void")
              ELSE /\ UNCHANGED mediaRecorder
                   /\ \E throws \in BOOLEAN :
                        /\ recordingStartTime' =
                             IF throws THEN recordingStartTime ELSE 0
                        /\ Did("stopRecording",
                               IF throws THEN "throws" ELSE "void")
       ELSE /\ UNCHANGED <<mediaRecorder, recordingStartTime>>
            /\ Did("stopRecording", "void")
  /\ UNCHANGED <<variant, toggled, stateLoop, contextsMade, fxNodes, snapshot, eqVars, recordedChunks, recording, morphVars,
                 providerGraphVars, tasks, graphVars, state, audioElement,
                 audio, deck, cueSetAt>>

\* toggleRecording (lines 849-855)
toggleRecording ==
  /\ IsEngine
  /\ IF state.isRecording THEN stopRecording ELSE startRecording

\* clearRecording (lines 870-874)
clearRecording ==
  /\ IsEngine
  /\ state' = [state EXCEPT !.recordingBlob = NoBlob,
                            !.recordingDuration = 0]
  /\ Did("clearRecording", "void")
  /\ UNCHANGED <<variant, toggled, stateLoop, contextsMade, fxNodes, snapshot, eqVars, recVars, morphVars, providerGraphVars,
                 tasks, graphVars, audioElement, audio, deck, cueSetAt>>

\* a dataavailable event of recorder r while it records (start(100) asks
\* for one every 100 ms) and its listener (lines 817-821)
ondataavailable(r) ==
  /\ IsEngine
  /\ r \in DOMAIN mediaRecorder /\ mediaRecorder[r].state = "recording"
  /\ Len(recordedChunks) < MaxChunks
  /\ recordedChunks' = Append(recordedChunks, r)
  /\ mediaRecorder' = [mediaRecorder EXCEPT ![r].delivered = @ + 1]
  /\ Did("ondataavailable", "void")
  /\ UNCHANGED <<variant, toggled, stateLoop, contextsMade, fxNodes, snapshot, eqVars, recordingStartTime, recording, morphVars,
                 providerGraphVars, tasks, graphVars, state, audioElement,
                 audio, deck, cueSetAt>>

\* the task stop() queued for recorder r: the last dataavailable event,
\* whose data may be empty, then the stop event; the listeners of the class
\* engine (lines 817-828) and of the provider (lines 2026-2035)
onstop(r) ==
  /\ r \in DOMAIN mediaRecorder /\ mediaRecorder[r].stopping
  /\ \E size \in {0, 1} :
       /\ size > 0 => Len(recordedChunks) < MaxChunks
       /\ recordedChunks' = IF size > 0 THEN Append(recordedChunks, r)
                                         ELSE recordedChunks
       /\ mediaRecorder' = [mediaRecorder EXCEPT
                              ![r].stopping = FALSE,
                              ![r].delivered = @ + size]
  /\ IF IsEngine
       THEN /\ state' = [state EXCEPT
                           !.recordingBlob = Blob(recordedChunks'),
                           !.isRecording = FALSE]
            /\ UNCHANGED recording
       ELSE /\ recording' = [recording EXCEPT
                               !.recordingBlob = Blob(recordedChunks')]
            /\ UNCHANGED state
  /\ Did("onstop", "void")
  /\ UNCHANGED <<variant, toggled, stateLoop, contextsMade, fxNodes, snapshot, eqVars, recordingStartTime, morphVars,
                 providerGraphVars, tasks, graphVars, audioElement, audio,
                 deck, cueSetAt>>

\* ---- bypass and safe mode of the class engine
\* setEqBypass (lines 558-562)
setEqBypass ==
  /\ IsEngine
  /\ \E bypass \in BOOLEAN :
       /\ state' = [state EXCEPT !.isBypassed = bypass]
       /\ connections' = connectGraph(connections, state', sourceNode)
  /\ Did("setEqBypass", "void")
  /\ UNCHANGED <<variant, toggled, stateLoop, contextsMade, fxNodes, snapshot, eqVars, recVars, morphVars, providerGraphVars, tasks, audioContext, graphBuilt,
                 sourceNode, audioElement, audio, deck, cueSetAt>>

\* setDjBypass (lines 640-644)
setDjBypass ==
  /\ IsEngine
  /\ \E bypass \in BOOLEAN :
       /\ state' = [state EXCEPT !.djBypass = bypass]
       /\ connections' = connectGraph(connections, state', sourceNode)
  /\ Did("setDjBypass", "void")
  /\ UNCHANGED <<variant, toggled, stateLoop, contextsMade, fxNodes, snapshot, eqVars, recVars, morphVars, providerGraphVars, tasks, audioContext, graphBuilt,
                 sourceNode, audioElement, audio, deck, cueSetAt>>

\* setSafeMode (lines 695-699)
setSafeMode ==
  /\ IsEngine
  /\ \E enabled \in BOOLEAN :
       /\ state' = [state EXCEPT !.safeModeEnabled = enabled]
       /\ connections' = connectGraph(connections, state', sourceNode)
  /\ Did("setSafeMode", "void")
  /\ UNCHANGED <<variant, toggled, stateLoop, contextsMade, fxNodes, snapshot, eqVars, recVars, morphVars, providerGraphVars, tasks, audioContext, graphBuilt,
                 sourceNode, audioElement, audio, deck, cueSetAt>>

\* ---- DJ scenes and the scene morph of the class engine
\* BUILT_IN_DJ_SCENES (lines 45-51): 'Clean' and 'Slowdown'
BUILT_IN_DJ_SCENES ==
  [Clean |-> [playbackRate |-> 20 * Unit, djFilterValue |-> 0,
              echoMix |-> 0, echoTime |-> 6 * Unit,
              echoFeedback |-> 6 * Unit],
   Slowdown |-> [playbackRate |-> 16 * Unit, djFilterValue |-> (-30) * Unit,
                 echoMix |-> 8 * Unit, echoTime |-> 10 * Unit,
                 echoFeedback |-> 10 * Unit]]

\* getCurrentDjParams (lines 705-713)
getCurrentDjParams(st) ==
  [playbackRate |-> st.playbackRate, djFilterValue |-> st.djFilterValue,
   echoMix |-> st.echoMix, echoTime |-> st.echoTime,
   echoFeedback |-> st.echoFeedback]

\* applyDjParams (lines 715-721): the five setters, none of which clamps
applyDjParams(st, params) ==
  [st EXCEPT !.playbackRate = params.playbackRate,
             !.djFilterValue = params.djFilterValue,
             !.echoMix = params.echoMix,
             !.echoTime = params.echoTime,
             !.echoFeedback = params.echoFeedback]

\* cancelAnimationFrame(id)
CancelFrameKeeps(queue, id) == queue
CancelFrame(queue, id) == {f \in queue : f.id # id}

\* progress = Math.min(elapsed / durationMs, 1), as a number of MorphTicks-ths
Progress(elapsed) == Min(elapsed, MorphTicks)

\* start + (end - start) * eased with eased = 1 - (1 - progress)^3
\* (lines 771-780)
EaseOutCubicNoDivide(start, end, progress) ==
  start + (end - start) * progress
EaseOutCubic(start, end, progress) ==
  start + ((end - start) * (MorphTicks ^ 3 - (MorphTicks - progress) ^ 3))
            \div (MorphTicks ^ 3)

\* raw values a caller passes to a DJ setter: below every range, and 1.5
\* (a filter value of 30)
RawInputs == {(-200) * Unit, 30 * Unit}
\* filter values a caller passes: the ends and the middles of the two
\* sweeps, the centre, and the raw values
FilterInputs ==
  RawInputs \cup {(-100) * Unit, (-50) * Unit, 0, 50 * Unit, 100 * Unit}

\* setPlaybackRate (lines 585-591): stores the value as passed
setPlaybackRate ==
  /\ IsEngine
  /\ \E rate \in RawInputs : state' = [state EXCEPT !.playbackRate = rate]
  /\ Did("setPlaybackRate", "void")
  /\ UNCHANGED <<variant, toggled, stateLoop, contextsMade, fxNodes, snapshot, eqVars, recVars, morphVars, providerGraphVars, tasks,
                 graphVars, audioElement, audio, deck, cueSetAt>>

\* setDjFilterValue (lines 593-614): stores the value as passed; the cutoff
\* it derives for the filter node is capped, the stored value is not
setDjFilterValueTo(value) ==
  /\ IsEngine
  /\ state' = [state EXCEPT !.djFilterValue = value]
  /\ fxNodes' = Written(fxNodes, "djFilter", filterMapping(value))
  /\ Did("setDjFilterValue", "void")
  /\ UNCHANGED <<variant, toggled, stateLoop, contextsMade, snapshot, eqVars, recVars, morphVars, providerGraphVars, tasks,
                 graphVars, audioElement, audio, deck, cueSetAt>>

setDjFilterValue == \E value \in FilterInputs : setDjFilterValueTo(value)

\* a setEchoMix that takes the wet path out of the graph as it writes
setEchoMixRewiring ==
  /\ IsEngine
  /\ \E mix \in RawInputs :
       /\ state' = [state EXCEPT !.echoMix = mix]
       /\ fxNodes' = Written(fxNodes, "mixGain", mix)
  /\ connections' = Disconnect(connections, "echoMixGain")
  /\ Did("setEchoMix", "void")
  /\ UNCHANGED <<variant, toggled, stateLoop, contextsMade, snapshot, eqVars, recVars, morphVars, providerGraphVars, tasks,
                 audioContext, graphBuilt, sourceNode, audioElement, audio, deck, cueSetAt>>

\* setEchoMix (lines 616-622)
setEchoMix ==
  /\ IsEngine
  /\ \E mix \in RawInputs :
       /\ state' = [state EXCEPT !.echoMix = mix]
       /\ fxNodes' = Written(fxNodes, "mixGain", mix)
  /\ Did("setEchoMix", "void")
  /\ UNCHANGED <<variant, toggled, stateLoop, contextsMade, snapshot, eqVars, recVars, morphVars, providerGraphVars, tasks,
                 graphVars, audioElement, audio, deck, cueSetAt>>

\* setEchoTime (lines 624-630)
setEchoTime ==
  /\ IsEngine
  /\ \E time \in RawInputs :
       /\ state' = [state EXCEPT !.echoTime = time]
       /\ fxNodes' = Written(fxNodes, "delayTime", time)
  /\ Did("setEchoTime", "void")
  /\ UNCHANGED <<variant, toggled, stateLoop, contextsMade, snapshot, eqVars, recVars, morphVars, providerGraphVars, tasks,
                 graphVars, audioElement, audio, deck, cueSetAt>>

\* setEchoFeedback (lines 632-638)
setEchoFeedback ==
  /\ IsEngine
  /\ \E feedback \in RawInputs :
       /\ state' = [state EXCEPT !.echoFeedback = feedback]
       /\ fxNodes' = Written(fxNodes, "feedbackGain", feedback)
  /\ Did("setEchoFeedback", "void")
  /\ UNCHANGED <<variant, toggled, stateLoop, contextsMade, snapshot, eqVars, recVars, morphVars, providerGraphVars, tasks,
                 graphVars, audioElement, audio, deck, cueSetAt>>

\* loadDjSceneA / loadDjSceneB (lines 733-743)
loadDjSceneOf(scene) ==
  /\ IsEngine
  /\ state' = [applyDjParams(state, IF scene = "A" THEN state.djSceneA
                                                    ELSE state.djSceneB)
                 EXCEPT !.activeDjScene = scene]
  /\ fxNodes' = AppliedToNodes(fxNodes, IF scene = "A" THEN state.djSceneA
                                                         ELSE state.djSceneB)
  /\ Did("loadDjScene", "void")
  /\ UNCHANGED <<variant, toggled, stateLoop, contextsMade, snapshot, eqVars, recVars, morphVars, providerGraphVars, tasks,
                 graphVars, audioElement, audio, deck, cueSetAt>>

loadDjScene == \E scene \in {"A", "B"} : loadDjSceneOf(scene)

\* storeDjSceneA / storeDjSceneB (lines 723-731)
storeDjSceneAs(scene) ==
  /\ IsEngine
  /\ state' = IF scene = "A"
                THEN [state EXCEPT !.djSceneA = getCurrentDjParams(state)]
                ELSE [state EXCEPT !.djSceneB = getCurrentDjParams(state)]
  /\ Did("storeDjScene", "void")
  /\ UNCHANGED <<variant, toggled, stateLoop, contextsMade, fxNodes, snapshot, eqVars, recVars, morphVars, providerGraphVars, tasks, graphVars,
                 audioElement, audio, deck, cueSetAt>>

storeDjScene == \E scene \in {"A", "B"} : storeDjSceneAs(scene)

\* applyBuiltInDjScene (lines 745-751)
applyBuiltInDjScene ==
  /\ IsEngine
  /\ \E name \in DOMAIN BUILT_IN_DJ_SCENES :
       /\ state' = applyDjParams(state, BUILT_IN_DJ_SCENES[name])
       /\ fxNodes' = AppliedToNodes(fxNodes, BUILT_IN_DJ_SCENES[name])
  /\ Did("applyBuiltInDjScene", "void")
  /\ UNCHANGED <<variant, toggled, stateLoop, contextsMade, snapshot, eqVars, recVars, morphVars, providerGraphVars, tasks, graphVars,
                 audioElement, audio, deck, cueSetAt>>

\* performance.now() advances
timePasses ==
  /\ now < MaxNow
  /\ now' = now + 1
  /\ Did("timePasses", "void")
  /\ UNCHANGED <<variant, toggled, stateLoop, contextsMade, fxNodes, snapshot, eqVars, recVars, dj, raf, nextRafId, morphAnimationId, lastMorph,
                 providerGraphVars, tasks, graphVars, deckVars>>

\* morphToScene up to its first requestAnimationFrame (lines 754-766, 795);
\* endParams is the scene object held by this.state at the call
morphToScene ==
  /\ IsEngine /\ lastMorph.count < MaxMorphs /\ nextRafId <= MaxFrames
  /\ \E target \in {"A", "B"} :
       LET startParams == getCurrentDjParams(state)
           endParams == IF target = "A" THEN state.djSceneA
                                        ELSE state.djSceneB
       IN  /\ raf' = CancelFrame(raf, morphAnimationId)
                       \cup {[id |-> nextRafId, startParams |-> startParams,
                              endParams |-> endParams, startTime |-> now,
                              target |-> target]}
           /\ lastMorph' = [target |-> target, startParams |-> startParams,
                            endParams |-> endParams, frames |-> 0,
                            progress |-> 0, count |-> lastMorph.count + 1]
  /\ morphAnimationId' = nextRafId
  /\ nextRafId' = nextRafId + 1
  /\ state' = [state EXCEPT !.isMorphing = TRUE, !.morphProgress = 0]
  /\ lastOp' = [op |-> "morphToScene", ret |-> "void", index |-> null,
                set |-> FALSE]
  /\ UNCHANGED <<variant, toggled, stateLoop, contextsMade, fxNodes, snapshot, eqVars, recVars, dj, now, providerGraphVars, tasks, graphVars,
                 audioElement, audio, deck, cueSetAt>>

\* the five interpolated parameters of a frame (lines 773-780)
Interpolated(startParams, endParams, progress) ==
  [k \in DOMAIN startParams |->
     EaseOutCubic(startParams[k], endParams[k], progress)]

\* animate, the frame callback of morphToScene (lines 768-793)
animate ==
  /\ IsEngine
  /\ \E f \in raf :
       LET progress == Progress(now - f.startTime)
           params == Interpolated(f.startParams, f.endParams, progress)
           applied == applyDjParams(state, params)
       IN  /\ fxNodes' = AppliedToNodes(fxNodes, params)
           /\ IF progress < MorphTicks
                THEN /\ nextRafId <= MaxFrames
                     /\ raf' = (raf \ {f}) \cup {[f EXCEPT !.id = nextRafId]}
                     /\ morphAnimationId' = nextRafId
                     /\ nextRafId' = nextRafId + 1
                     /\ state' = [applied EXCEPT !.morphProgress = progress]
                ELSE /\ raf' = raf \ {f}
                     /\ morphAnimationId' = null
                     /\ nextRafId' = nextRafId
                     /\ state' = [applied EXCEPT !.morphProgress = progress,
                                                 !.isMorphing = FALSE,
                                                 !.activeDjScene = f.target]
           /\ lastMorph' = [lastMorph EXCEPT !.frames = @ + 1,
                                             !.progress = progress]
           /\ lastOp' = [op |-> "animate",
                         ret |-> IF progress = 0 THEN "start"
                                 ELSE IF progress < MorphTicks THEN "mid"
                                 ELSE "done",
                         index |-> null, set |-> FALSE]
  /\ UNCHANGED <<variant, toggled, stateLoop, contextsMade, snapshot, eqVars, recVars, dj, now, providerGraphVars, tasks, graphVars,
                 audioElement, audio, deck, cueSetAt>>

\* cancelMorph (lines 798-805)
cancelMorph ==
  /\ IsEngine
  /\ IF morphAnimationId # null
       THEN /\ raf' = CancelFrame(raf, morphAnimationId)
            /\ morphAnimationId' = null
            /\ state' = [state EXCEPT !.isMorphing = FALSE]
       ELSE UNCHANGED <<raf, morphAnimationId, state>>
  /\ lastOp' = [op |-> "cancelMorph",
                ret |-> IF morphAnimationId # null THEN "cancelled"
                                                   ELSE "idle",
                index |-> null, set |-> FALSE]
  /\ UNCHANGED <<variant, toggled, stateLoop, contextsMade, fxNodes, snapshot, eqVars, recVars, dj, now, nextRafId, lastMorph, providerGraphVars,
                 tasks, graphVars, audioElement, audio, deck, cueSetAt>>

\* destroy (lines 877-885): cancels the pending frame of the state loop and
\* the pending frame of the morph, and closes the context; it resets neither
\* this.morphAnimationId nor state.isMorphing
destroy ==
  /\ IsEngine
  /\ stateLoop' = FALSE
  /\ raf' = IF morphAnimationId # null THEN CancelFrame(raf, morphAnimationId)
                                       ELSE raf
  /\ audioContext' = IF audioContext = "null" THEN "null" ELSE "closed"
  /\ Did("destroy", "void")
  /\ UNCHANGED <<variant, toggled, contextsMade, fxNodes, snapshot, eqVars, recVars, dj, now, nextRafId, morphAnimationId, lastMorph,
                 providerGraphVars, tasks, graphBuilt, sourceNode, connections, deckVars>>

\* ---- loop of the class engine
\* setLoopIn (lines 672-675)
setLoopIn ==
  /\ IsEngine
  /\ state' = [state EXCEPT !.loopIn = state.currentTime]
  /\ Did("setLoopIn", "void")
  /\ UNCHANGED <<variant, toggled, stateLoop, contextsMade, fxNodes, snapshot, eqVars, recVars, morphVars, providerGraphVars, tasks, graphVars, audioElement, audio, deck,
                 cueSetAt>>

\* setLoopOut (lines 677-680)
setLoopOut ==
  /\ IsEngine
  /\ state' = [state EXCEPT !.loopOut = state.currentTime]
  /\ Did("setLoopOut", "void")
  /\ UNCHANGED <<variant, toggled, stateLoop, contextsMade, fxNodes, snapshot, eqVars, recVars, morphVars, providerGraphVars, tasks, graphVars, audioElement, audio, deck,
                 cueSetAt>>

\* toggleLoop (lines 682-685)
toggleLoop ==
  /\ IsEngine
  /\ state' = [state EXCEPT !.loopEnabled = ~state.loopEnabled]
  /\ Did("toggleLoop", "void")
  /\ UNCHANGED <<variant, toggled, stateLoop, contextsMade, fxNodes, snapshot, eqVars, recVars, morphVars, providerGraphVars, tasks, graphVars, audioElement, audio, deck,
                 cueSetAt>>

\* clearLoop (lines 687-692)
clearLoop ==
  /\ IsEngine
  /\ state' = [state EXCEPT !.loopIn = null, !.loopOut = null,
                            !.loopEnabled = FALSE]
  /\ Did("clearLoop", "void")
  /\ UNCHANGED <<variant, toggled, stateLoop, contextsMade, fxNodes, snapshot, eqVars, recVars, morphVars, providerGraphVars, tasks, graphVars, audioElement, audio, deck,
                 cueSetAt>>

\* ================================================= AudioEngineProvider
IsProvider == variant = "provider"
Decks == {"A", "B"}

\* defaultDeckState (lines 1170-1181)
defaultDeckState ==
  [isPlaying |-> FALSE, currentTime |-> 0, duration |-> 0,
   hotCues |-> NoCues, loopIn |-> null, loopOut |-> null,
   loopEnabled |-> FALSE, playbackRate |-> 20 * Unit]

\* defaultDjScene (lines 1183-1189)
defaultDjScene ==
  [playbackRate |-> 20 * Unit, filterMacro |-> 0, echoMix |-> 0,
   echoTime |-> 5 * Unit, echoFeedback |-> 6 * Unit]

\* the DJ FX state of the provider as it is first rendered (lines 1238-1250)
defaultDj ==
  [filterMacro |-> 0, echoMix |-> 0, echoTime |-> 5 * Unit,
   echoFeedback |-> 6 * Unit,
   djSceneA |-> defaultDjScene, djSceneB |-> defaultDjScene,
   activeDjScene |-> "A", isMorphing |-> FALSE]

\* the mixer state of the provider as it is first rendered: eqGains
\* (line 1228), crossfader (line 1254), volume (line 1257)
defaultMixer ==
  [crossfader |-> 5, volume |-> 8, eqGains |-> FLAT_GAINS,
   eqPresetA |-> FLAT_GAINS, eqPresetB |-> FLAT_GAINS, activeEqPreset |-> "A"]

\* the recording state of the provider as it is first rendered
\* (lines 1261-1264)
defaultRecording ==
  [isRecording |-> FALSE, recordingTime |-> 0, recordingBlob |-> NoBlob,
   recordingIntervalRef |-> FALSE, intervals |-> 0]

\* ---- the Web Audio graph of the provider
\* updateSafeMode in initAudioContext (lines 1313-1328) and the body of
\* setSafeMode (lines 1555-1569)
UpdateSafeMode(conns, enabled) ==
  LET d1 == Disconnect(conns, "deckGainA")
      d2 == Disconnect(d1, "deckGainB")
      d3 == Disconnect(d2, "compressor")
  IN  IF enabled
        THEN d3 \cup {<<"deckGainA", "compressor">>,
                      <<"deckGainB", "compressor">>,
                      <<"compressor", "masterGain">>,
                      <<"compressor", "mediaStreamDest">>}
        ELSE d3 \cup {<<"deckGainA", "masterGain">>,
                      <<"deckGainB", "masterGain">>,
                      <<"deckGainA", "mediaStreamDest">>,
                      <<"deckGainB", "mediaStreamDest">>}

\* initAudioContext (lines 1280-1381): the connections it makes when it
\* creates the context; nothing when the context exists
InitAudioContext(ctx, conns, safe) ==
  IF ctx # "null" THEN conns
  ELSE UpdateSafeMode(conns \cup {<<"masterGain", "destination">>}, safe)
         \cup {<<"delayNode", "feedbackGain">>,
               <<"feedbackGain", "delayNode">>,
               <<"delayNode", "echoWetGain">>}

\* the gains initAudioContext gives the nodes it creates (lines 1286-1319):
\* the master gain is the volume, the deck gains keep the default of
\* createGain, the filters take eqGains
InitNodes(ctx) ==
  /\ contextsMade' = ContextsMade(ctx, contextsMade)
  /\ IF ctx # "null" THEN UNCHANGED <<filters, masterGain, deckGain, fxNodes>>
     ELSE /\ filters' = [i \in 1 .. EQ_BANDS |-> At(mixer.eqGains, i - 1)]
          /\ masterGain' = mixer.volume
          /\ deckGain' = [d \in Decks |-> <<"unity", 0>>]
          /\ fxNodes' = CreatedFxNodes(dj.echoTime, dj.echoFeedback, dj.echoMix)

\* the edges connectSourceA adds (lines 1405-1422); bypass is the eqBypass
\* of the render that made the callback
SourceAEdges(bypass) ==
  LET last == IF bypass THEN "sourceA" ELSE LastFilter
      eq == IF bypass THEN {}
            ELSE {<<"sourceA", FirstFilter>>} \cup FilterChain
  IN  eq \cup {<<last, "fxDryGain">>, <<last, "djFilter">>,
               <<"djFilter", "echoDryGain">>, <<"djFilter", "delayNode">>,
               <<"echoDryGain", "fxWetGain">>, <<"echoWetGain", "fxWetGain">>,
               <<"fxDryGain", "deckGainA">>, <<"fxWetGain", "deckGainA">>}

\* connectSourceA / connectSourceB (lines 1386-1440): the effect on
\* <<sourceNodeRef, connections>>; the <audio> elements exist from mount
ConnectGuard(ctx, refs, d) == ctx # "null" /\ refs[d] = 0

ConnectSource(ctx, refs, conns, bypass, d) ==
  IF ConnectGuard(ctx, refs, d)
    THEN [refs |-> [refs EXCEPT ![d] = @ + 1],
          conns |-> conns \cup (IF d = "A" THEN SourceAEdges(bypass)
                                ELSE {<<"sourceB", "deckGainB">>})]
    ELSE [refs |-> refs, conns |-> conns]

\* ---- deck handlers of the provider, d is the deck
\* the load part shared by loadUrlA/B and loadFileA/B after the context:
\* connectSource, element.src, setDeck (lines 1577-1592, 1607-1623)
ClearedDeck(dk) ==
  [dk EXCEPT !.hotCues = NoCues, !.loopIn = null, !.loopOut = null,
             !.loopEnabled = FALSE]

LoadDeck(d, ctx, conns) ==
  LET c == ConnectSource(ctx, sourceNodeRef, conns, eqBypass, d)
  IN  /\ sourceNodeRef' = c.refs
      /\ connections' = c.conns
      /\ audio' = [audio EXCEPT ![d] = SetSrc(@)]
      /\ deck' = [deck EXCEPT ![d] = ClearedDeck(@)]
      /\ cueSetAt' = [cueSetAt EXCEPT ![d] = NoCues]

\* loadUrlA / loadUrlB (lines 1605-1625, 1657-1677); ensureAudioContext is
\* not awaited, its resume settles on its own
loadUrlD(d) ==
  /\ IsProvider
  /\ \E c \in ResumeOutcomes(CreateContext(audioContext)) : audioContext' = c
  /\ LoadDeck(d, CreateContext(audioContext),
              InitAudioContext(audioContext, connections, safeMode))
  /\ Did("loadUrl" \o d, "void")
  /\ InitNodes(audioContext)
  /\ toggled' = Refreshed(toggled, d)
  /\ UNCHANGED <<variant, stateLoop, snapshot, mixer, recVars, morphVars, tasks, graphBuilt, sourceNode, audioElement, state,
                 eqBypass, fxBypass, safeMode>>

\* loadFileA / loadFileB up to `await ensureAudioContext()` (line 1576)
loadFileD(d) ==
  /\ IsProvider /\ TotalTasks < MaxPending
  /\ audioContext' = CreateContext(audioContext)
  /\ connections' = InitAudioContext(audioContext, connections, safeMode)
  /\ tasks' = Spawn("loadFile" \o d)
  /\ Did("loadFile" \o d, "void")
  /\ InitNodes(audioContext)
  /\ UNCHANGED <<variant, toggled, stateLoop, snapshot, mixer, recVars, morphVars, graphBuilt, sourceNode, deckVars, providerGraphVars>>

\* loadFileA / loadFileB after the await (lines 1577-1592); a resume that
\* fails rejects ensureAudioContext (lines 1445-1452) and the handler with it
loadFileD_resumed(d) ==
  /\ IsProvider /\ tasks["loadFile" \o d] > 0
  /\ \E c \in ResumeOutcomes(audioContext) :
       /\ audioContext' = c
       /\ IF c = "running"
            THEN LoadDeck(d, audioContext, connections)
            ELSE UNCHANGED <<sourceNodeRef, connections, audio, deck,
                             cueSetAt>>
       /\ Did("loadFile" \o d \o "_resumed",
              IF c = "running" THEN "void" ELSE "rejects")
  /\ tasks' = Finish("loadFile" \o d)
  /\ UNCHANGED <<variant, toggled, stateLoop, contextsMade, fxNodes, snapshot, eqVars, recVars, morphVars, graphBuilt, sourceNode, audioElement, state,
                 eqBypass, fxBypass, safeMode>>

\* playA / playB up to the await (lines 1682-1683)
playDAfter(d, history) ==
  /\ IsProvider /\ TotalTasks < MaxPending
  /\ audioContext' = CreateContext(audioContext)
  /\ connections' = InitAudioContext(audioContext, connections, safeMode)
  /\ tasks' = Spawn("play" \o d)
  /\ Did("play" \o d, "void")
  /\ toggled' = history
  /\ InitNodes(audioContext)
  /\ UNCHANGED <<variant, stateLoop, snapshot, mixer, recVars, morphVars, graphBuilt, sourceNode, deckVars, providerGraphVars>>

playD(d) == playDAfter(d, Refreshed(toggled, d))

\* pauseA / pauseB (lines 1688-1690)
pauseDAfter(d, history) ==
  /\ IsProvider
  /\ audio' = [audio EXCEPT ![d].paused = TRUE]
  /\ Did("pause" \o d, "void")
  /\ toggled' = history
  /\ UNCHANGED <<variant, stateLoop, contextsMade, fxNodes, snapshot, eqVars, recVars, morphVars, tasks, graphVars, providerGraphVars,
                 audioElement, state, deck, cueSetAt>>

pauseD(d) == pauseDAfter(d, Refreshed(toggled, d))

\* togglePlayA / togglePlayB (lines 1692-1698): decides on the isPlaying of
\* the render that made the callback
togglePlayD(d) ==
  LET history == Toggled(toggled, d, ~audio[d].paused)
  IN  IF deck[d].isPlaying THEN pauseDAfter(d, history)
                           ELSE playDAfter(d, history)

\* playA / playB after the await (lines 1684-1685): a resume that fails
\* rejects ensureAudioContext (lines 1445-1452) and the handler with it;
\* otherwise the platform grants or rejects element.play(), whose promise
\* the handler drops
playD_resumed(d) ==
  /\ IsProvider /\ tasks["play" \o d] > 0
  /\ \E c \in ResumeOutcomes(audioContext), granted \in BOOLEAN :
       LET cs == ConnectSource(audioContext, sourceNodeRef, connections,
                               eqBypass, d)
       IN  /\ audioContext' = c
           /\ IF c = "running"
                THEN /\ audio' = IF granted /\ audio[d].hasSrc
                                   THEN [audio EXCEPT ![d].paused = FALSE]
                                   ELSE audio
                     /\ sourceNodeRef' = cs.refs
                     /\ connections' = cs.conns
                ELSE UNCHANGED <<audio, sourceNodeRef, connections>>
           /\ Did("play" \o d \o "_resumed",
                  IF c # "running" THEN "rejects"
                  ELSE IF granted /\ audio[d].hasSrc THEN "void"
                  ELSE "unhandled rejection")
  /\ tasks' = Finish("play" \o d)
  /\ UNCHANGED <<variant, toggled, stateLoop, contextsMade, fxNodes, snapshot, eqVars, recVars, morphVars, graphBuilt, sourceNode, audioElement, state, deck,
                 cueSetAt, eqBypass, fxBypass, safeMode>>

\* seekA / seekB (lines 1700-1704)
seekD(d) ==
  /\ IsProvider
  /\ \E time \in TimeInputs :
       /\ audio' = [audio EXCEPT
                      ![d].currentTime = SeekTarget(time, deck[d].duration)]
       /\ DidWith("seek" \o d, "void", time)
  /\ UNCHANGED <<variant, toggled, stateLoop, contextsMade, fxNodes, snapshot, eqVars, recVars, morphVars, tasks, graphVars, providerGraphVars, audioElement,
                 state, deck, cueSetAt>>

\* ---- the element's events and their listeners (lines 2151-2211)
playbackD(d) ==
  /\ IsProvider /\ audio[d].ready /\ ~audio[d].paused
  /\ audio[d].currentTime < audio[d].duration
  /\ audio' = [audio EXCEPT ![d].currentTime = @ + 1]
  /\ Did("playback" \o d, "void")
  /\ UNCHANGED <<variant, toggled, stateLoop, contextsMade, fxNodes, snapshot, eqVars, recVars, morphVars, tasks, graphVars, providerGraphVars, audioElement,
                 state, deck, cueSetAt>>

\* loadedmetadata / durationchange: onLoadedMetadata, onDurationChange
onLoadedMetadataD(d) ==
  /\ IsProvider /\ audio[d].hasSrc /\ ~audio[d].ready
  /\ \E dur \in Durations :
       /\ audio' = [audio EXCEPT ![d].ready = TRUE, ![d].duration = dur]
       /\ deck' = [deck EXCEPT ![d].duration = dur]
  /\ Did("onLoadedMetadata" \o d, "void")
  /\ toggled' = Refreshed(toggled, d)
  /\ UNCHANGED <<variant, stateLoop, contextsMade, fxNodes, snapshot, eqVars, recVars, morphVars, tasks, graphVars, providerGraphVars, audioElement,
                 state, cueSetAt>>

\* play / pause events: onPlay, onPause
onPlayPauseD(d) ==
  /\ IsProvider /\ deck[d].isPlaying = audio[d].paused
  /\ deck' = [deck EXCEPT ![d].isPlaying = ~audio[d].paused]
  /\ Did("onPlayPause" \o d, "void")
  /\ toggled' = Refreshed(toggled, d)
  /\ UNCHANGED <<variant, stateLoop, contextsMade, fxNodes, snapshot, eqVars, recVars, morphVars, tasks, graphVars, providerGraphVars, audioElement,
                 state, audio, cueSetAt>>

\* timeupdate: onTimeUpdate (line 2157), then handleTimeUpdate of the loop
\* enforcement effect (lines 1841-1853), registered while the loop is enabled
\* and both markers are set
onTimeUpdateD(d) ==
  /\ IsProvider
  /\ deck' = [deck EXCEPT ![d].currentTime = audio[d].currentTime]
  /\ audio' = IF LoopWraps(deck[d], audio[d].currentTime)
                THEN [audio EXCEPT ![d].currentTime = deck[d].loopIn]
                ELSE audio
  /\ Did("onTimeUpdate" \o d, "void")
  /\ UNCHANGED <<variant, toggled, stateLoop, contextsMade, fxNodes, snapshot, eqVars, recVars, morphVars, tasks, graphVars, providerGraphVars, audioElement,
                 state, cueSetAt>>

\* ---- hot cues of the provider
\* newCues[index] = time: an index outside the array adds an element
WithCue(hotCues, index, time) ==
  [i \in (DOMAIN hotCues) \cup {index} |->
     IF i = index THEN time ELSE hotCues[i]]

\* setHotCueA / setHotCueB (lines 1749-1755, 1765-1771)
setHotCueDAt(d, index) ==
  /\ IsProvider
  /\ \E time \in {deck[d].currentTime, audio[d].currentTime} :
       /\ deck' = [deck EXCEPT ![d].hotCues = WithCue(@, index, time)]
       /\ cueSetAt' =
            IF index \in CueSlots
              THEN [cueSetAt EXCEPT ![d][index] =
                      IF time = deck[d].currentTime THEN time ELSE null]
              ELSE cueSetAt
  /\ Did("setHotCue" \o d, "void")
  /\ UNCHANGED <<variant, toggled, stateLoop, contextsMade, fxNodes, snapshot, eqVars, recVars, morphVars, tasks, graphVars, providerGraphVars, audioElement,
                 state, audio>>

setHotCueD(d) == \E index \in CueIndexes : setHotCueDAt(d, index)

\* triggerHotCueA / triggerHotCueB (lines 1757-1763, 1773-1779).
\* deck.hotCues[index] is undefined outside the array; undefined !== null, so
\* seekA(undefined) computes NaN and the assignment of NaN to currentTime
\* throws a TypeError out of the handler
triggerHotCueD(d) ==
  /\ IsProvider
  /\ \E index \in CueIndexes :
       LET defined == index \in DOMAIN deck[d].hotCues
           cue == CueOf(deck[d].hotCues, index)
       IN  /\ audio' =
                IF defined /\ cue # null
                  THEN [audio EXCEPT ![d].currentTime =
                          SeekTarget(cue, deck[d].duration)]
                  ELSE audio
           /\ lastOp' = [op |-> "triggerHotCue" \o d,
                         ret |-> IF ~defined THEN "throws"
                                 ELSE IF cue # null THEN "true" ELSE "false",
                         index |-> index, set |-> defined /\ cue # null]
  /\ UNCHANGED <<variant, toggled, stateLoop, contextsMade, fxNodes, snapshot, eqVars, recVars, morphVars, tasks, graphVars, providerGraphVars, audioElement,
                 state, deck, cueSetAt>>

\* ---- bypass and safe mode of the provider
\* setEqBypass (lines 1884-1892): sets the flag and the filter gains, the
\* connections are left as connectSourceA made them
setEqBypassP ==
  /\ IsProvider
  /\ \E bypass \in BOOLEAN :
       /\ eqBypass' = bypass
       /\ filters' = [i \in 1 .. Len(filters) |->
                        IF bypass THEN 0 ELSE At(mixer.eqGains, i - 1)]
  /\ Did("setEqBypassP", "void")
  /\ UNCHANGED <<variant, toggled, stateLoop, contextsMade, fxNodes, snapshot, masterGain, deckGain, mixer, recVars, morphVars, tasks, graphVars, sourceNodeRef, fxBypass, safeMode,
                 deckVars>>

\* ---- EQ, volume and crossfader of the provider
\* the gain vector a caller hands to applyBuiltinPreset: 'Bass Boost'
PresetGains == {<<6, 3, -1, 0, 1, 2, 2, 1>>}

\* the effect on [eqGains] (lines 1481-1485): every filter takes eqGains[i],
\* bypassed or not
setEqGains(gains) ==
  /\ mixer' = [mixer EXCEPT !.eqGains = gains]
  /\ filters' = [i \in 1 .. Len(filters) |-> At(gains, i - 1)]

\* setEqGain (lines 1872-1878)
setEqGainTo(index, gain) ==
  /\ IsProvider
  /\ setEqGains(SetAt(mixer.eqGains, index, gain))
  /\ Did("setEqGain", "void")
  /\ UNCHANGED <<variant, toggled, stateLoop, contextsMade, fxNodes, snapshot, masterGain, deckGain, recVars, morphVars, tasks,
                 graphVars, providerGraphVars, deckVars>>

setEqGain ==
  \E index \in BandIndexes, gain \in GainInputs : setEqGainTo(index, gain)

\* applyBuiltinPreset (lines 1902-1904)
applyBuiltinPreset ==
  /\ IsProvider
  /\ \E gains \in PresetGains : setEqGains(gains)
  /\ Did("applyBuiltinPreset", "void")
  /\ UNCHANGED <<variant, toggled, stateLoop, contextsMade, fxNodes, snapshot, masterGain, deckGain, recVars, morphVars, tasks,
                 graphVars, providerGraphVars, deckVars>>

\* storeEqPreset (lines 1894-1900)
storeEqPreset ==
  /\ IsProvider
  /\ \E preset \in {"A", "B"} :
       mixer' = IF preset = "A"
                  THEN [mixer EXCEPT !.eqPresetA = mixer.eqGains]
                  ELSE [mixer EXCEPT !.eqPresetB = mixer.eqGains]
  /\ Did("storeEqPreset", "void")
  /\ UNCHANGED <<variant, toggled, stateLoop, contextsMade, fxNodes, snapshot, filters, masterGain, deckGain, recVars, morphVars, tasks,
                 graphVars, providerGraphVars, deckVars>>

\* setActiveEqPreset of the context value (lines 2258-2261), with the
\* effect on [eqGains]: the gains in use are not stored before they are
\* replaced
ActivatedPreset(m, live, preset) ==
  LET gains == IF preset = "A" THEN m.eqPresetA ELSE m.eqPresetB
  IN  [mixer |-> [m EXCEPT !.activeEqPreset = preset, !.eqGains = gains],
       filters |-> [i \in 1 .. Len(live) |-> At(gains, i - 1)]]

setActiveEqPreset ==
  /\ IsProvider
  /\ \E preset \in {"A", "B"} :
       /\ mixer' = ActivatedPreset(mixer, filters, preset).mixer
       /\ filters' = ActivatedPreset(mixer, filters, preset).filters
  /\ Did("setActiveEqPreset", "void")
  /\ UNCHANGED <<variant, toggled, stateLoop, contextsMade, fxNodes, snapshot, masterGain, deckGain, recVars, morphVars, tasks,
                 graphVars, providerGraphVars, deckVars>>

\* setVolume = setVolumeState (line 2292) and the effect on [volume]
\* (lines 1471-1476)
setVolumeP ==
  /\ IsProvider
  /\ \E value \in LevelInputs :
       /\ mixer' = [mixer EXCEPT !.volume = value]
       /\ masterGain' = IF masterGain # null THEN value ELSE masterGain
  /\ Did("setVolumeP", "void")
  /\ UNCHANGED <<variant, toggled, stateLoop, contextsMade, fxNodes, snapshot, filters, deckGain, recVars, morphVars, tasks,
                 graphVars, providerGraphVars, deckVars>>

\* crossfader positions a caller passes, in tenths: the ends, positions in
\* between, and the raw values
FaderInputs == LevelInputs \cup {0, 2, 8, 10}
\* Math.cos(x * Math.PI * 0.5) and Math.sin(x * Math.PI * 0.5) (lines
\* 1464-1465) in thousandths, x in tenths: the cosine of the first quarter
\* turn to three decimals, and its symmetries
QuarterCos == <<1000, 988, 951, 891, 809, 707, 588, 454, 309, 156, 0>>
Cos(x) ==
  LET r == x % 40
  IN  IF r <= 10 THEN QuarterCos[r + 1]
      ELSE IF r <= 20 THEN 0 - QuarterCos[21 - r]
      ELSE IF r <= 30 THEN 0 - QuarterCos[r - 19]
      ELSE QuarterCos[41 - r]
Sin(x) == Cos(x - 10)
\* the value of a deck gain in thousandths; createGain makes it 1
GainValue(gain) ==
  IF gain[1] = "cos" THEN Cos(gain[2])
  ELSE IF gain[1] = "sin" THEN Sin(gain[2])
  ELSE 1000

\* setCrossfader = setCrossfaderState (line 2289) and the effect on
\* [crossfader] (lines 1457-1466), which runs when the value changes: the
\* equal power law cos(x * pi / 2), sin(x * pi / 2) of the value as passed
setCrossfader ==
  /\ IsProvider
  /\ \E value \in FaderInputs :
       /\ mixer' = [mixer EXCEPT !.crossfader = value]
       /\ deckGain' = IF audioContext # "null" /\ value # mixer.crossfader
                        THEN [A |-> <<"cos", value>>, B |-> <<"sin", value>>]
                        ELSE deckGain
  /\ Did("setCrossfader", "void")
  /\ UNCHANGED <<variant, toggled, stateLoop, contextsMade, fxNodes, snapshot, filters, masterGain, recVars, morphVars, tasks,
                 graphVars, providerGraphVars, deckVars>>

\* ---- recording of the provider
\* startRecording (lines 2015-2046): the sink is made by initAudioContext;
\* nothing tests isRecording and nothing catches what the platform throws
startRecordingP ==
  /\ IsProvider
  /\ IF audioContext = "null"
       THEN /\ UNCHANGED recVars
            /\ Did("startRecordingP", "void")
       ELSE /\ Len(mediaRecorder) < MaxRecorders
            /\ \E outcome \in StartOutcomes :
                 /\ recordedChunks' = <<>>
                 /\ mediaRecorder' = Started(mediaRecorder, outcome)
                 /\ recording' =
                      IF outcome = "started"
                        THEN [recording EXCEPT
                                !.recordingBlob = NoBlob,
                                !.isRecording = TRUE,
                                !.recordingTime = 0,
                                !.recordingIntervalRef = TRUE,
                                !.intervals = @ + 1]
                        ELSE [recording EXCEPT !.recordingBlob = NoBlob]
                 /\ Did("startRecordingP",
                        IF outcome = "started" THEN "void" ELSE "throws")
            /\ UNCHANGED recordingStartTime
  /\ UNCHANGED <<variant, toggled, stateLoop, contextsMade, fxNodes, snapshot, eqVars, morphVars, tasks, graphVars,
                 providerGraphVars, deckVars>>

\* stopRecording (lines 2048-2057)
stopRecordingP ==
  /\ IsProvider
  /\ mediaRecorder' =
       IF mediaRecorder # <<>>
          /\ mediaRecorder[Len(mediaRecorder)].state # "inactive"
         THEN Stopped(mediaRecorder) ELSE mediaRecorder
  /\ recording' =
       IF recording.recordingIntervalRef
         THEN [recording EXCEPT !.isRecording = FALSE,
                                !.recordingIntervalRef = FALSE,
                                !.intervals = @ - 1]
         ELSE [recording EXCEPT !.isRecording = FALSE]
  /\ Did("stopRecordingP", "void")
  /\ UNCHANGED <<variant, toggled, stateLoop, contextsMade, fxNodes, snapshot, eqVars, recordedChunks, recordingStartTime,
                 morphVars, tasks, graphVars, providerGraphVars, deckVars>>

\* clearRecording (lines 2059-2063)
clearRecordingP ==
  /\ IsProvider
  /\ recording' = [recording EXCEPT !.recordingBlob = NoBlob,
                                    !.recordingTime = 0]
  /\ recordedChunks' = <<>>
  /\ Did("clearRecordingP", "void")
  /\ UNCHANGED <<variant, toggled, stateLoop, contextsMade, fxNodes, snapshot, eqVars, mediaRecorder, recordingStartTime,
                 morphVars, tasks, graphVars, providerGraphVars, deckVars>>

\* a tick of an interval startRecording set (lines 2042-2045)
recordingInterval ==
  /\ IsProvider /\ recording.intervals > 0
  /\ \E time \in recording.recordingTime .. MaxRecTime :
       recording' = [recording EXCEPT !.recordingTime = time]
  /\ Did("recordingInterval", "void")
  /\ UNCHANGED <<variant, toggled, stateLoop, contextsMade, fxNodes, snapshot, eqVars, mediaRecorder, recordedChunks,
                 recordingStartTime, morphVars, tasks, graphVars,
                 providerGraphVars, deckVars>>

\* setFxBypass (lines 1942-1944) and its effect (lines 1534-1541): the flag
\* and the dry/wet gains
setFxBypassP ==
  /\ IsProvider
  /\ \E bypass \in BOOLEAN : fxBypass' = bypass
  /\ Did("setFxBypassP", "void")
  /\ UNCHANGED <<variant, toggled, stateLoop, contextsMade, fxNodes, snapshot, eqVars, recVars, morphVars, tasks, graphVars, sourceNodeRef, eqBypass, safeMode,
                 deckVars>>

\* setSafeMode (lines 1546-1570): returns after setting the flag while the
\* nodes do not exist
setSafeModeP ==
  /\ IsProvider
  /\ \E enabled \in BOOLEAN :
       /\ safeMode' = enabled
       /\ connections' = IF audioContext = "null" THEN connections
                         ELSE UpdateSafeMode(connections, enabled)
  /\ Did("setSafeModeP", "void")
  /\ UNCHANGED <<variant, toggled, stateLoop, contextsMade, fxNodes, snapshot, eqVars, recVars, morphVars, tasks, audioContext, graphBuilt, sourceNode,
                 sourceNodeRef, eqBypass, fxBypass, deckVars>>

\* ---- DJ scenes and the scene morph of the provider
\* the scene a caller hands to applyDjPreset: 'Slowdown'
PresetInputs ==
  {[playbackRate |-> 16 * Unit, filterMacro |-> (-30) * Unit,
    echoMix |-> 8 * Unit, echoTime |-> 10 * Unit, echoFeedback |-> 10 * Unit]}

\* the clamp of setPlaybackRateA (line 1707): 0.5 .. 2
ClampRate(rate) == Max(10 * Unit, Min(40 * Unit, rate))

\* setPlaybackRateA / setPlaybackRateB (lines 1706-1712, 1738-1744)
setPlaybackRateD(d) ==
  /\ IsProvider
  /\ \E rate \in RawInputs :
       deck' = [deck EXCEPT ![d].playbackRate = ClampRate(rate)]
  /\ Did("setPlaybackRate" \o d, "void")
  /\ UNCHANGED <<variant, toggled, stateLoop, contextsMade, fxNodes, snapshot, eqVars, recVars, morphVars, tasks, graphVars,
                 providerGraphVars, audioElement, state, audio, cueSetAt>>

\* setFilterMacro (lines 1926-1928)
setFilterMacroTo(value) ==
  /\ IsProvider
  /\ dj' = [dj EXCEPT
              !.filterMacro = Max((-100) * Unit, Min(100 * Unit, value))]
  /\ fxNodes' = EffectsOn(fxNodes, dj, dj')
  /\ Did("setFilterMacro", "void")
  /\ UNCHANGED <<variant, toggled, stateLoop, contextsMade, snapshot, eqVars, recVars, now, raf, nextRafId,
                 morphAnimationId, lastMorph, tasks, graphVars,
                 providerGraphVars, deckVars>>

setFilterMacro == \E value \in FilterInputs : setFilterMacroTo(value)

\* setEchoMix (lines 1930-1932)
setEchoMixP ==
  /\ IsProvider
  /\ \E value \in RawInputs :
       dj' = [dj EXCEPT !.echoMix = Max(0, Min(20 * Unit, value))]
  /\ fxNodes' = EffectsOn(fxNodes, dj, dj')
  /\ Did("setEchoMixP", "void")
  /\ UNCHANGED <<variant, toggled, stateLoop, contextsMade, snapshot, eqVars, recVars, now, raf, nextRafId,
                 morphAnimationId, lastMorph, tasks, graphVars,
                 providerGraphVars, deckVars>>

\* setEchoTime (lines 1934-1936): Math.max(0.05, Math.min(2, value))
setEchoTimeP ==
  /\ IsProvider
  /\ \E value \in RawInputs :
       dj' = [dj EXCEPT !.echoTime = Max(Unit, Min(40 * Unit, value))]
  /\ fxNodes' = EffectsOn(fxNodes, dj, dj')
  /\ Did("setEchoTimeP", "void")
  /\ UNCHANGED <<variant, toggled, stateLoop, contextsMade, snapshot, eqVars, recVars, now, raf, nextRafId,
                 morphAnimationId, lastMorph, tasks, graphVars,
                 providerGraphVars, deckVars>>

\* setEchoFeedback (lines 1938-1940)
setEchoFeedbackP ==
  /\ IsProvider
  /\ \E value \in RawInputs :
       dj' = [dj EXCEPT !.echoFeedback = Max(0, Min(18 * Unit, value))]
  /\ fxNodes' = EffectsOn(fxNodes, dj, dj')
  /\ Did("setEchoFeedbackP", "void")
  /\ UNCHANGED <<variant, toggled, stateLoop, contextsMade, snapshot, eqVars, recVars, now, raf, nextRafId,
                 morphAnimationId, lastMorph, tasks, graphVars,
                 providerGraphVars, deckVars>>

\* the parameters a scene is stored from (lines 1950-1956)
CurrentScene(dk, fx) ==
  [playbackRate |-> dk.playbackRate, filterMacro |-> fx.filterMacro,
   echoMix |-> fx.echoMix, echoTime |-> fx.echoTime,
   echoFeedback |-> fx.echoFeedback]

\* storeDjScene (lines 1949-1962)
storeDjScenePAs(scene) ==
  /\ IsProvider
  /\ dj' = IF scene = "A"
             THEN [dj EXCEPT !.djSceneA = CurrentScene(deck.A, dj)]
             ELSE [dj EXCEPT !.djSceneB = CurrentScene(deck.A, dj)]
  /\ Did("storeDjSceneP", "void")
  /\ UNCHANGED <<variant, toggled, stateLoop, contextsMade, fxNodes, snapshot, eqVars, recVars, now, raf, nextRafId, morphAnimationId, lastMorph,
                 tasks, graphVars, providerGraphVars, deckVars>>

storeDjSceneP == \E scene \in {"A", "B"} : storeDjScenePAs(scene)

\* the five writes of applyDjPreset and of a morph frame (lines 1965-1969,
\* 1995-1999): only the playback rate is clamped
AppliedFx(fx, scene) ==
  [fx EXCEPT !.filterMacro = scene.filterMacro, !.echoMix = scene.echoMix,
             !.echoTime = scene.echoTime,
             !.echoFeedback = scene.echoFeedback]

\* applyDjPreset (lines 1964-1970); a caller passes it a preset or one of
\* the stored scenes, djSceneA or djSceneB
applyDjPresetOf(scene) ==
  /\ IsProvider
  /\ dj' = AppliedFx(dj, scene)
  /\ deck' = [deck EXCEPT !.A.playbackRate = ClampRate(scene.playbackRate)]
  /\ fxNodes' = EffectsOn(fxNodes, dj, dj')
  /\ Did("applyDjPreset", "void")
  /\ UNCHANGED <<variant, toggled, stateLoop, contextsMade, snapshot, eqVars, recVars, now, raf, nextRafId, morphAnimationId, lastMorph,
                 tasks, graphVars, providerGraphVars, audioElement, state,
                 audio, cueSetAt>>

applyDjPreset ==
  \E scene \in PresetInputs \cup {dj.djSceneA, dj.djSceneB} :
    applyDjPresetOf(scene)

\* lerp of animate (line 1993), t = Math.min(elapsed / duration, 1)
Lerp(a, b, progress) == a + ((b - a) * progress) \div MorphTicks

\* morphDjScenes (lines 1972-2010) up to its requestAnimationFrame: called
\* while a morph runs it cancels it, otherwise it starts the morph from the
\* active scene to the other one
morphDjScenes ==
  /\ IsProvider
  /\ IF dj.isMorphing
       THEN /\ raf' = IF morphAnimationId # null
                        THEN CancelFrame(raf, morphAnimationId)
                        ELSE raf
            /\ morphAnimationId' = null
            /\ dj' = [dj EXCEPT !.isMorphing = FALSE]
            /\ UNCHANGED <<nextRafId, lastMorph>>
       ELSE /\ lastMorph.count < MaxMorphs /\ nextRafId <= MaxFrames
            /\ LET toB == dj.activeDjScene = "A"
                   startScene == IF toB THEN dj.djSceneA ELSE dj.djSceneB
                   endScene == IF toB THEN dj.djSceneB ELSE dj.djSceneA
                   target == IF toB THEN "B" ELSE "A"
               IN  /\ raf' = raf \cup
                        {[id |-> nextRafId, startParams |-> startScene,
                          endParams |-> endScene, startTime |-> now,
                          target |-> target]}
                   /\ lastMorph' =
                        [target |-> target, startParams |-> startScene,
                         endParams |-> endScene, frames |-> 0,
                         progress |-> 0, count |-> lastMorph.count + 1]
            /\ morphAnimationId' = nextRafId
            /\ nextRafId' = nextRafId + 1
            /\ dj' = [dj EXCEPT !.isMorphing = TRUE]
  /\ lastOp' = [op |-> "morphDjScenes",
                ret |-> IF dj.isMorphing THEN "cancelled" ELSE "started",
                index |-> null, set |-> FALSE]
  /\ UNCHANGED <<variant, toggled, stateLoop, contextsMade, fxNodes, snapshot, eqVars, recVars, now, tasks, graphVars, providerGraphVars, deckVars>>

\* animate, the frame callback of morphDjScenes (lines 1989-2007); at t = 1
\* it leaves morphRafRef.current as it is
animateP ==
  /\ IsProvider
  /\ \E f \in raf :
       LET progress == Progress(now - f.startTime)
           scene == [k \in DOMAIN f.startParams |->
                       Lerp(f.startParams[k], f.endParams[k], progress)]
           applied == AppliedFx(dj, scene)
       IN  /\ deck' = [deck EXCEPT
                         !.A.playbackRate = ClampRate(scene.playbackRate)]
           /\ IF progress < MorphTicks
                THEN /\ nextRafId <= MaxFrames
                     /\ raf' = (raf \ {f}) \cup {[f EXCEPT !.id = nextRafId]}
                     /\ morphAnimationId' = nextRafId
                     /\ nextRafId' = nextRafId + 1
                     /\ dj' = applied
                ELSE /\ raf' = raf \ {f}
                     /\ dj' = [applied EXCEPT !.isMorphing = FALSE,
                                              !.activeDjScene = f.target]
                     /\ UNCHANGED <<morphAnimationId, nextRafId>>
           /\ fxNodes' = EffectsOn(fxNodes, dj, applied)
           /\ lastMorph' = [lastMorph EXCEPT !.frames = @ + 1,
                                             !.progress = progress]
           /\ lastOp' = [op |-> "animate",
                         ret |-> IF progress = 0 THEN "start"
                                 ELSE IF progress < MorphTicks THEN "mid"
                                 ELSE "done",
                         index |-> null, set |-> FALSE]
  /\ UNCHANGED <<variant, toggled, stateLoop, contextsMade, snapshot, eqVars, recVars, now, tasks, graphVars, providerGraphVars,
                 audioElement, state, audio, cueSetAt>>

\* ---- loop of the provider
\* normalizeLoop (lines 1786-1794)
normalizeLoop(loopIn, loopOut, duration) ==
  IF loopIn = null \/ loopOut = null
    THEN [loopIn |-> loopIn, loopOut |-> loopOut]
    ELSE LET inVal == Max(0, Min(loopIn, duration))
             outVal == Max(0, Min(loopOut, duration))
         IN  [loopIn |-> inVal,
              loopOut |-> IF outVal < inVal + MIN_LOOP_GAP
                            THEN Min(inVal + MIN_LOOP_GAP, duration)
                            ELSE outVal]

\* setLoopInA / setLoopInB (lines 1796-1801, 1818-1823)
setLoopInD(d) ==
  /\ IsProvider
  /\ \E time \in TimeInputs :
       LET n == normalizeLoop(time, deck[d].loopOut, deck[d].duration)
       IN  deck' = [deck EXCEPT ![d].loopIn = n.loopIn,
                                ![d].loopOut = n.loopOut]
  /\ Did("setLoopIn" \o d, "void")
  /\ UNCHANGED <<variant, toggled, stateLoop, contextsMade, fxNodes, snapshot, eqVars, recVars, morphVars, tasks, graphVars, providerGraphVars, audioElement,
                 state, audio, cueSetAt>>

\* setLoopOutA / setLoopOutB (lines 1803-1808, 1825-1830)
setLoopOutD(d) ==
  /\ IsProvider
  /\ \E time \in TimeInputs :
       LET n == normalizeLoop(deck[d].loopIn, time, deck[d].duration)
       IN  deck' = [deck EXCEPT ![d].loopIn = n.loopIn,
                                ![d].loopOut = n.loopOut]
  /\ Did("setLoopOut" \o d, "void")
  /\ UNCHANGED <<variant, toggled, stateLoop, contextsMade, fxNodes, snapshot, eqVars, recVars, morphVars, tasks, graphVars, providerGraphVars, audioElement,
                 state, audio, cueSetAt>>

\* toggleLoopA / toggleLoopB (lines 1810-1812, 1832-1834)
toggleLoopD(d) ==
  /\ IsProvider
  /\ deck' = [deck EXCEPT ![d].loopEnabled = ~@]
  /\ Did("toggleLoop" \o d, "void")
  /\ UNCHANGED <<variant, toggled, stateLoop, contextsMade, fxNodes, snapshot, eqVars, recVars, morphVars, tasks, graphVars, providerGraphVars, audioElement,
                 state, audio, cueSetAt>>

\* clearLoopA / clearLoopB (lines 1814-1816, 1836-1838)
clearLoopD(d) ==
  /\ IsProvider
  /\ deck' = [deck EXCEPT ![d].loopIn = null, ![d].loopOut = null,
                          ![d].loopEnabled = FALSE]
  /\ Did("clearLoop" \o d, "void")
  /\ UNCHANGED <<variant, toggled, stateLoop, contextsMade, fxNodes, snapshot, eqVars, recVars, morphVars, tasks, graphVars, providerGraphVars, audioElement,
                 state, audio, cueSetAt>>

\* ================================================================ Init
Init ==
  /\ variant \in {"engine", "provider"}
  /\ lastOp = [op |-> "init", ret |-> "void", index |-> null, set |-> FALSE]
  /\ tasks = [l \in TaskLabels |-> 0]
  /\ audioElement = NewAudio(FALSE)
  /\ stateLoop = TRUE
  /\ toggled = [A |-> NoToggles, B |-> NoToggles]
  /\ audioContext = "null"
  /\ contextsMade = 0
  /\ graphBuilt = FALSE
  /\ sourceNode = 0
  /\ connections = {}
  /\ state = InitialState
  /\ audio = [d \in Decks |-> NewAudio(TRUE)]
  /\ deck = [d \in Decks |-> defaultDeckState]
  /\ sourceNodeRef = [d \in Decks |-> 0]
  /\ eqBypass = FALSE
  /\ fxBypass = FALSE
  /\ safeMode = TRUE
  /\ cueSetAt = [d \in Decks |-> NoCues]
  /\ dj = defaultDj
  /\ now = 0
  /\ raf = {}
  /\ nextRafId = 1
  /\ morphAnimationId = null
  /\ lastMorph = NoMorph
  /\ filters = <<>>
  /\ masterGain = null
  /\ deckGain = [d \in Decks |-> NoGain]
  /\ mixer = defaultMixer
  /\ mediaRecorder = <<>>
  /\ recordedChunks = <<>>
  /\ recordingStartTime = 0
  /\ recording = defaultRecording
  /\ snapshot = NoSnapshot
  /\ fxNodes = NoFxNodes

\* ---- the loop window: loading, playback, seeking and the loop operations
NextLoop ==
  \/ setAudioElement \/ loadUrl \/ loadedmetadata \/ play \/ play_resumed
  \/ playback \/ update \/ seek
  \/ setLoopIn \/ setLoopOut \/ toggleLoop \/ clearLoop
  \/ loadUrlD("A") \/ onLoadedMetadataD("A") \/ playD("A")
  \/ playD_resumed("A") \/ playbackD("A")
  \/ onPlayPauseD("A") \/ onTimeUpdateD("A") \/ seekD("A")
  \/ setLoopInD("A") \/ setLoopOutD("A") \/ toggleLoopD("A")
  \/ clearLoopD("A")

SpecLoop == Init /\ [][NextLoop]_vars

\* ---- hot cues: transport and the cue operations
NextCue ==
  \/ setAudioElement \/ loadUrl \/ loadedmetadata \/ play \/ play_resumed
  \/ playback \/ update \/ seek
  \/ setHotCue \/ triggerHotCue \/ clearHotCue
  \/ loadUrlD("A") \/ onLoadedMetadataD("A") \/ playD("A")
  \/ playD_resumed("A") \/ playbackD("A") \/ onTimeUpdateD("A")
  \/ seekD("A") \/ setHotCueD("A") \/ triggerHotCueD("A")

SpecCue == Init /\ [][NextCue]_vars

\* ---- the audio graph: what builds it and what reconnects it
NextGraph ==
  \/ setAudioElement \/ loadFile \/ loadFile_resumed \/ loadFile_timeout
  \/ play \/ play_resumed \/ buildAudioGraph
  \/ setEqBypass \/ setDjBypass \/ setSafeMode
  \/ loadUrlD("A") \/ loadUrlD("B") \/ loadFileD("A") \/ loadFileD_resumed("A")
  \/ playD("A") \/ playD_resumed("A") \/ playD("B") \/ playD_resumed("B")
  \/ setEqBypassP \/ setFxBypassP \/ setSafeModeP

SpecGraph == Init /\ [][NextGraph]_vars

\* ---- the state loop over load, playback, the context and a recording
NextTick ==
  \/ setAudioElement \/ loadUrl \/ loadFile \/ loadFile_resumed
  \/ loadFile_timeout \/ loadedmetadata \/ play \/ play_resumed
  \/ playback \/ pause \/ update
  \/ startRecording \/ stopRecording
  \/ (\E r \in 1 .. MaxRecorders : onstop(r))

SpecTick == Init /\ [][NextTick]_vars

\* ---- the graph under parameter writes. The source is loaded and played
\* until the graph is built, the writes are made to the built graph with no
\* call in flight, and the families of writes are exercised
\* one at a time: the EQ and volume writes while the DJ parameters are those
\* of a scene, a DJ setter on the parameters of a scene while the EQ is
\* flat, a morph from the parameters of a scene
Settled == graphBuilt /\ TotalTasks = 0
EqAtRest == state.gains = FLAT_GAINS /\ state.volume = InitialState.volume
SceneValues ==
  {DEFAULT_DJ_SCENE} \cup {BUILT_IN_DJ_SCENES[n] : n \in DOMAIN BUILT_IN_DJ_SCENES}
DjAtRest == getCurrentDjParams(state) \in SceneValues /\ lastMorph = NoMorph
NextTopology ==
  \/ (~graphBuilt /\ (setAudioElement \/ loadUrl \/ play))
  \/ play_resumed \/ buildAudioGraph
  \/ setEqBypass \/ setDjBypass \/ setSafeMode
  \/ (Settled /\ DjAtRest /\ (setVolume \/ setBandGain \/ setAllGains))
  \/ (Settled /\ EqAtRest /\ DjAtRest
       /\ (\/ setPlaybackRate \/ setDjFilterValue \/ setEchoMix
           \/ setEchoTime \/ setEchoFeedback))
  \/ (Settled /\ EqAtRest /\ lastMorph = NoMorph
       /\ (loadDjScene \/ applyBuiltInDjScene))
  \/ (/\ Settled /\ EqAtRest /\ getCurrentDjParams(state) \in SceneValues
      /\ morphToScene)
  \/ (raf # {} /\ (animate \/ timePasses))

SpecTopology == Init /\ [][NextTopology]_vars

\* ---- the two EQ slots
NextSlots ==
  \/ setAudioElement \/ loadFile \/ loadFile_resumed \/ loadFile_timeout
  \/ setBandGain \/ setAllGains \/ switchSlot
  \/ loadUrlD("A") \/ setEqGain \/ applyBuiltinPreset
  \/ storeEqPreset \/ setActiveEqPreset

SpecSlots == Init /\ [][NextSlots]_vars

\* ---- play, pause and the toggle, with the refresh of isPlaying
NextToggle ==
  \/ setAudioElement \/ loadUrl \/ loadedmetadata \/ playback \/ update
  \/ pause \/ togglePlay \/ play_resumed
  \/ loadUrlD("A") \/ onLoadedMetadataD("A") \/ playbackD("A")
  \/ onPlayPauseD("A") \/ pauseD("A") \/ togglePlayD("A")
  \/ playD_resumed("A")

SpecToggle == Init /\ [][NextToggle]_vars

\* ---- DJ scenes and the scene morph
NextMorph ==
  \/ timePasses
  \/ storeDjScene \/ applyBuiltInDjScene
  \/ morphToScene \/ animate \/ cancelMorph \/ destroy
  \/ storeDjSceneP \/ applyDjPreset \/ morphDjScenes \/ animateP

SpecMorph == Init /\ [][NextMorph]_vars

\* ---- the DJ parameters: the setters, scene recall and the presets
NextFx ==
  \/ setPlaybackRate \/ setDjFilterValue \/ setEchoMix \/ setEchoTime
  \/ setEchoFeedback \/ loadDjScene \/ applyBuiltInDjScene
  \/ setPlaybackRateD("A") \/ setFilterMacro \/ setEchoMixP
  \/ setEchoTimeP \/ setEchoFeedbackP \/ applyDjPreset

SpecFx == Init /\ [][NextFx]_vars

\* ---- recording, with what makes the capture sink
NextRec ==
  \/ setAudioElement \/ loadFile \/ loadFile_resumed \/ loadFile_timeout
  \/ update \/ startRecording \/ stopRecording \/ clearRecording
  \/ toggleRecording
  \/ (\E r \in 1 .. MaxRecorders : ondataavailable(r))
  \/ (\E r \in 1 .. MaxRecorders : onstop(r))
  \/ loadUrlD("A") \/ startRecordingP \/ stopRecordingP \/ clearRecordingP
  \/ recordingInterval

SpecRec == Init /\ [][NextRec]_vars
\* the platform delivers the events a stop() has queued
SpecRecFair ==
  SpecRec /\ WF_vars(\E r \in 1 .. MaxRecorders : onstop(r))

\* ---- seeking: transport, seek and the skips
NextSeek ==
  \/ setAudioElement \/ loadUrl \/ loadedmetadata \/ play \/ play_resumed
  \/ playback \/ update \/ seek \/ skipBackward \/ skipForward
  \/ loadUrlD("A") \/ onLoadedMetadataD("A") \/ playD("A")
  \/ playD_resumed("A") \/ playbackD("A") \/ onTimeUpdateD("A")
  \/ seekD("A")

SpecSeek == Init /\ [][NextSeek]_vars

\* ---- volume, crossfader and band gains, with what builds the nodes
NextMix ==
  \/ setAudioElement \/ loadFile \/ loadFile_resumed \/ loadFile_timeout
  \/ setVolume \/ setBandGain
  \/ loadUrlD("A") \/ setVolumeP \/ setCrossfader \/ setEqGain

SpecMix == Init /\ [][NextMix]_vars

\* ---- the EQ: gains, slots and bypass, with what builds the nodes
NextEq ==
  \/ setAudioElement \/ loadFile \/ loadFile_resumed \/ loadFile_timeout
  \/ setBandGain \/ setAllGains \/ switchSlot \/ setEqBypass
  \/ loadUrlD("A") \/ setEqGain \/ applyBuiltinPreset \/ setEqBypassP

SpecEq == Init /\ [][NextEq]_vars

\* writing band gains and bypassing the EQ, in both builds
NextBypass ==
  \/ setAudioElement \/ loadFile \/ loadFile_resumed \/ loadFile_timeout
  \/ setBandGain \/ setEqBypass
  \/ loadUrlD("A") \/ setEqGain \/ setEqBypassP

SpecBypass == Init /\ [][NextBypass]_vars

\* state objects handed to callers, and the operations that write the state
NextSnap ==
  \/ setAudioElement \/ loadUrl \/ play \/ play_resumed \/ update
  \/ subscribe \/ getState
  \/ setHotCue \/ clearHotCue \/ setBandGain

SpecSnap == Init /\ [][NextSnap]_vars

\* storing and recalling DJ scenes between direct parameter writes
NextScene ==
  \/ setPlaybackRate \/ setEchoMix \/ storeDjScene \/ loadDjScene
  \/ setPlaybackRateD("A") \/ setEchoMixP \/ storeDjSceneP \/ applyDjPreset

SpecScene == Init /\ [][NextScene]_vars

\* the FX and volume setters before and after the nodes are created
NextNodes ==
  \/ setAudioElement \/ loadFile \/ loadFile_resumed \/ loadFile_timeout
  \/ setDjFilterValue \/ setEchoMix \/ setEchoTime \/ setEchoFeedback
  \/ setVolume
  \/ loadUrlD("A") \/ setFilterMacro \/ setEchoMixP \/ setEchoTimeP
  \/ setEchoFeedbackP \/ setVolumeP

SpecNodes == Init /\ [][NextNodes]_vars

\* ============================================================== claims
\* C1: whenever loopIn and loopOut are both set, loopOut >= loopIn +
\* MIN_LOOP_GAP and both markers lie in [0, duration].
LoopWindowOk(loopIn, loopOut, duration) ==
  (loopIn # null /\ loopOut # null) =>
     /\ loopOut >= loopIn + MIN_LOOP_GAP
     /\ 0 <= loopIn /\ loopIn <= duration
     /\ 0 <= loopOut /\ loopOut <= duration

C1_LoopInvariant ==
  /\ IsEngine => LoopWindowOk(state.loopIn, state.loopOut, state.duration)
  /\ IsProvider => LoopWindowOk(deck.A.loopIn, deck.A.loopOut, deck.A.duration)

\* C2: after a tick of the synchronization loop, the playback position is
\* loopIn if the loop is enabled, both markers are set and the position
\* sampled by the tick (published as currentTime) is >= loopOut; otherwise
\* the position is the sampled one, the tick has not moved it.
WrapEnforced(published, position) ==
  IF /\ published.loopEnabled
     /\ published.loopIn # null /\ published.loopOut # null
     /\ published.currentTime >= published.loopOut
    THEN position = published.loopIn
    ELSE position = published.currentTime

C2_LoopWrap ==
  /\ lastOp.op = "update" => WrapEnforced(state, audioElement.currentTime)
  /\ lastOp.op = "onTimeUpdateA" => WrapEnforced(deck.A, audio.A.currentTime)

\* a tick that wrapped: the sampled position was at or past loopOut and the
\* position is loopIn, before loopOut
C2_Witness ==
  /\ lastOp.op = "update"
  /\ state.loopEnabled /\ state.loopIn # null /\ state.loopOut # null
  /\ state.loopIn < state.loopOut
  /\ state.currentTime >= state.loopOut
  /\ audioElement.currentTime = state.loopIn

\* C3: reconnect discipline. From the graph build onward the set of
\* connections is exactly the one determined by the current EQ bypass, FX
\* bypass and safe mode flags, whatever calls of setEqBypass, setDjBypass /
\* setFxBypass and setSafeMode came before.
ProviderTopology(bypass, safe, refs) ==
  UpdateSafeMode({<<"masterGain", "destination">>}, safe)
    \cup {<<"delayNode", "feedbackGain">>, <<"feedbackGain", "delayNode">>,
          <<"delayNode", "echoWetGain">>}
    \cup (IF refs.A > 0 THEN SourceAEdges(bypass) ELSE {})
    \cup (IF refs.B > 0 THEN {<<"sourceB", "deckGainB">>} ELSE {})

C3_ReconnectDiscipline ==
  /\ (IsEngine /\ graphBuilt) =>
       connections = ConnectGraph(FilterChain, state)
  /\ (IsProvider /\ audioContext # "null") =>
       connections = ProviderTopology(eqBypass, safeMode, sourceNodeRef)

\* C4: build idempotence. The media source node of an element is created
\* once, and a build that finds the graph built changes neither the nodes
\* nor the connections: once built, the connections change only with the
\* flags that reconnect them.
C4_BuildStep ==
  /\ sourceNode' <= 1
  /\ \A d \in Decks : sourceNodeRef'[d] <= 1
  /\ graphBuilt =>
       /\ graphBuilt' /\ sourceNode' = sourceNode
       /\ (/\ state'.isBypassed = state.isBypassed
           /\ state'.djBypass = state.djBypass
           /\ state'.safeModeEnabled = state.safeModeEnabled)
            => connections' = connections
  /\ \A d \in Decks : sourceNodeRef[d] = 1 =>
       /\ sourceNodeRef'[d] = 1
       /\ {e \in connections' : e[1] = "source" \o d}
            = {e \in connections : e[1] = "source" \o d}
  /\ (sourceNodeRef.A = 1 /\ sourceNodeRef.B = 1 /\ safeMode' = safeMode)
       => connections' = connections

C4_BuildIdempotent == [][C4_BuildStep]_vars

\* buildAudioGraph has been called on the built graph, and a deck of the
\* provider has met connectSource again after its source node was made
C4_Witness ==
  /\ lastOp.op = "buildAudioGraph" /\ lastOp.ret = "already built"
  /\ graphBuilt /\ sourceNode = 1
  /\ connections = ConnectGraph(FilterChain, state)

\* ---- the scene morph as both builds show it
DjParams(st, dk, fx) ==
  IF variant = "engine" THEN getCurrentDjParams(st) ELSE CurrentScene(dk, fx)
Scene(st, fx, name) ==
  IF variant = "engine"
    THEN (IF name = "A" THEN st.djSceneA ELSE st.djSceneB)
    ELSE (IF name = "A" THEN fx.djSceneA ELSE fx.djSceneB)
IsMorphing(st, fx) ==
  IF variant = "engine" THEN st.isMorphing ELSE fx.isMorphing
ActiveScene(st, fx) ==
  IF variant = "engine" THEN st.activeDjScene ELSE fx.activeDjScene
Cancelled(op) ==
  \/ op.op = "cancelMorph" /\ op.ret = "cancelled"
  \/ op.op = "morphDjScenes" /\ op.ret = "cancelled"
StrictlyBetween(v, a, b) == (a < v /\ v < b) \/ (b < v /\ v < a)

\* C5: when the frame that completes a morph has run, the five parameters
\* equal the values stored in scene[target], isMorphing is false, the
\* active scene is the target and the animation handle is cleared.
C5_MorphCompletion ==
  (lastOp.op = "animate" /\ lastOp.ret = "done") =>
     /\ DjParams(state, deck.A, dj) = Scene(state, dj, lastMorph.target)
     /\ ~IsMorphing(state, dj)
     /\ ActiveScene(state, dj) = lastMorph.target
     /\ morphAnimationId = null

\* C6: a cancel of a morph in flight leaves isMorphing false and, if start
\* and target differ in some parameter, leaves at least one such parameter
\* strictly between its start and its target value.
C6_CancelIntermediate ==
  Cancelled(lastOp) =>
     /\ ~IsMorphing(state, dj)
     /\ (\E k \in DOMAIN lastMorph.startParams :
           lastMorph.startParams[k] # lastMorph.endParams[k])
          => \E k \in DOMAIN lastMorph.startParams :
               StrictlyBetween(DjParams(state, deck.A, dj)[k],
                               lastMorph.startParams[k],
                               lastMorph.endParams[k])

\* C6 (amended): a cancel of a morph in flight leaves isMorphing false and
\* writes no parameter. The parameters stay where the last frame or a later
\* write left them: when the cancel comes right after a frame of the morph
\* with 0 < progress < 1, every parameter whose start and target differ is
\* strictly between the two.
C6_CancelStep ==
  Cancelled(lastOp') =>
     /\ ~IsMorphing(state', dj')
     /\ DjParams(state', deck'.A, dj') = DjParams(state, deck.A, dj)
     /\ (lastOp.op = "animate" /\ lastOp.ret = "mid") =>
          \A k \in DOMAIN lastMorph.startParams :
            lastMorph.startParams[k] # lastMorph.endParams[k] =>
              StrictlyBetween(DjParams(state', deck'.A, dj')[k],
                              lastMorph.startParams[k],
                              lastMorph.endParams[k])

C6_CancelKeepsParams == [][C6_CancelStep]_vars

\* a morph between different values was cancelled after a frame with
\* 0 < progress < 1, and a parameter rests strictly between its endpoints
C6_Witness ==
  /\ Cancelled(lastOp)
  /\ lastMorph.frames > 0
  /\ 0 < lastMorph.progress /\ lastMorph.progress < MorphTicks
  /\ \E k \in DOMAIN lastMorph.startParams :
       StrictlyBetween(DjParams(state, deck.A, dj)[k],
                       lastMorph.startParams[k], lastMorph.endParams[k])

\* C7: no orphaned frame callbacks. A callback waiting for a frame is the
\* one the animation handle names, there is at most one, and there is none
\* while no morph is in flight: after a cancel no frame of the cancelled
\* animation is left to run.
C7_NoOrphanedFrames ==
  /\ \A f \in raf : f.id = morphAnimationId
  /\ Cardinality(raf) <= 1
  /\ ~IsMorphing(state, dj) => raf = {}

\* a morph was cancelled after at least one of its frames had run and had
\* requested the next one
C7_Witness ==
  /\ Cancelled(lastOp)
  /\ lastMorph.frames > 0 /\ lastMorph.progress < MorphTicks
  /\ raf = {} /\ morphAnimationId = null

C9_TriggerStep ==
  lastOp'.op \in {"triggerHotCue", "triggerHotCueA"} =>
    IF lastOp'.set
      THEN lastOp'.ret = "true"
      ELSE /\ lastOp'.ret = "false"
           /\ audioElement'.currentTime = audioElement.currentTime
           /\ audio'.A.currentTime = audio.A.currentTime
           /\ state'.currentTime = state.currentTime
           /\ deck'.A.currentTime = deck.A.currentTime

C9_TriggerResult == [][C9_TriggerStep]_vars

\* C10: when a load (loadUrl, loadFile and the deck A variants) has run, the
\* deck's currentTime is 0, isPlaying is false, the four hot cues are null
\* and the loop window is cleared.
DeckIsReset(d) ==
  /\ d.currentTime = 0 /\ d.isPlaying = FALSE
  /\ \A i \in CueSlots : d.hotCues[i] = null
  /\ d.loopIn = null /\ d.loopOut = null /\ d.loopEnabled = FALSE

C10_LoadResets ==
  /\ lastOp.op \in {"loadUrl", "loadFile"} => DeckIsReset(state)
  /\ lastOp.op \in {"loadUrlA", "loadFileA_resumed"} => DeckIsReset(deck.A)


\* C11: toggleLoop flips loopEnabled only when both markers are set, so an
\* enabled loop always has loopIn and loopOut
C11_LoopEnabledHasMarkers ==
  /\ IsEngine /\ state.loopEnabled =>
       state.loopIn # null /\ state.loopOut # null
  /\ IsProvider =>
       \A d \in Decks :
         deck[d].loopEnabled =>
           deck[d].loopIn # null /\ deck[d].loopOut # null

\* C12: the DJ parameters stay in range: playbackRate in [0.5, 2], the
\* filter value in [-100, 100], echoMix in [0, 1], echoTime in [0.05, 1.0],
\* echoFeedback in [0, 0.9], whatever the callers pass
ParamsInRange(rate, filter, mix, time, feedback) ==
  /\ 10 * Unit <= rate /\ rate <= 40 * Unit
  /\ (-100) * Unit <= filter /\ filter <= 100 * Unit
  /\ 0 <= mix /\ mix <= 20 * Unit
  /\ Unit <= time /\ time <= 20 * Unit
  /\ 0 <= feedback /\ feedback <= 18 * Unit

C12_ParamsInRange ==
  IF IsEngine
    THEN ParamsInRange(state.playbackRate, state.djFilterValue,
                       state.echoMix, state.echoTime, state.echoFeedback)
    ELSE ParamsInRange(deck.A.playbackRate, dj.filterMacro, dj.echoMix,
                       dj.echoTime, dj.echoFeedback)

\* C13: crossfader and volume stay in [0, 1], every band gain in
\* [MIN_GAIN, MAX_GAIN], and the live gain nodes hold the clamped values
LevelInRange(x) == 0 <= x /\ x <= 10
GainsInRange(gains) ==
  \A i \in 1 .. Len(gains) : MIN_GAIN <= gains[i] /\ gains[i] <= MAX_GAIN

C13_MixerInRange ==
  /\ masterGain # null => LevelInRange(masterGain)
  /\ GainsInRange(filters)
  /\ IsEngine => LevelInRange(state.volume) /\ GainsInRange(state.gains)
  /\ IsProvider =>
       /\ LevelInRange(mixer.volume) /\ LevelInRange(mixer.crossfader)
       /\ GainsInRange(mixer.eqGains)
       /\ \A d \in Decks :
            deckGain[d][1] \in {"cos", "sin"} => LevelInRange(deckGain[d][2])

\* C14: seek(t) puts the playback position at t clamped into [0, duration],
\* duration being the one the deck publishes at the call, and skipBackward(s)
\* / skipForward(s) are seek(currentTime - s) / seek(currentTime + s)
ClampedInto(t, duration) ==
  IF t < 0 THEN 0 ELSE IF t > duration THEN duration ELSE t

SoughtTo(t) ==
  /\ audioElement'.currentTime = ClampedInto(t, state.duration)
  /\ state'.currentTime = ClampedInto(t, state.duration)
  /\ 0 <= audioElement'.currentTime
  /\ audioElement'.currentTime <= state.duration

C14_SeekStep ==
  /\ (lastOp'.op = "seek" /\ audioElement.attached) =>
       SoughtTo(lastOp'.arg)
  /\ (lastOp'.op = "skipBackward" /\ audioElement.attached) =>
       SoughtTo(state.currentTime - lastOp'.arg)
  /\ (lastOp'.op = "skipForward" /\ audioElement.attached) =>
       SoughtTo(state.currentTime + lastOp'.arg)
  /\ lastOp'.op = "seekA" =>
       /\ audio'.A.currentTime = ClampedInto(lastOp'.arg, deck.A.duration)
       /\ 0 <= audio'.A.currentTime
       /\ audio'.A.currentTime <= deck.A.duration

C14_SeekClamps == [][C14_SeekStep]_vars

\* skipBackward has been called with more seconds than have been played, on
\* a track whose duration is published, and the position is 0
C14_Witness ==
  /\ lastOp.op = "skipBackward" /\ lastOp.arg = 1
  /\ audioElement.attached /\ state.duration > 0
  /\ state.currentTime = 0 /\ audioElement.currentTime = 0

\* C15: startRecording is a no-op while a recording is in progress or
\* while the capture sink does not exist: it changes no recording state,
\* drops no chunk and makes no second recorder, so at most one recorder
\* records at any time
IsRecording == IF IsEngine THEN state.isRecording ELSE recording.isRecording
RecordingBlob ==
  IF IsEngine THEN state.recordingBlob ELSE recording.recordingBlob
RecordingDuration ==
  IF IsEngine THEN state.recordingDuration ELSE recording.recordingTime
HasSink == IF IsEngine THEN graphBuilt ELSE audioContext # "null"
Recording(recorders) ==
  {r \in DOMAIN recorders : recorders[r].state = "recording"}

C15_StartStep ==
  /\ (lastOp'.op \in {"startRecording", "startRecordingP"}
        /\ (IsRecording \/ ~HasSink)) =>
       /\ UNCHANGED <<recVars, state>>
       /\ lastOp'.ret = "void"
  /\ Cardinality(Recording(mediaRecorder')) <= 1

C15_StartIsNoOp == [][C15_StartStep]_vars

\* C16: the result blob exists only after stop. A blob that is not null
\* implies isRecording = false, and it holds exactly the chunks one
\* recording session delivered, from its start to its stop
HoldsSession(blob, recorders) ==
  \E r \in DOMAIN recorders :
    /\ recorders[r].state = "inactive" /\ ~recorders[r].stopping
    /\ Len(blob.parts) = recorders[r].delivered
    /\ \A i \in 1 .. Len(blob.parts) : blob.parts[i] = r

C16_BlobAfterStop ==
  ~RecordingBlob.isNull =>
    ~IsRecording /\ HoldsSession(RecordingBlob, mediaRecorder)

\* C17: a startRecording whose recorder cannot be made or started does not
\* throw, and leaves isRecording, recordingBlob and recordingDuration as
\* they were
C17_FailedStartStep ==
  (/\ lastOp'.op \in {"startRecording", "startRecordingP"}
   /\ lastOp'.ret # "void") =>
    /\ lastOp'.ret # "throws"
    /\ ~IsRecording'
    /\ RecordingBlob' = RecordingBlob
    /\ RecordingDuration' = RecordingDuration

C17_FailedStartRollsBack == [][C17_FailedStartStep]_vars

\* C18: play never propagates a failure. When the platform rejects the
\* playback request or the resume of the context fails, the handler still
\* completes normally (nothing is thrown, its promise is not rejected) and
\* the playing state of the decks stays as it was
PlayHandlers == {"play_resumed", "playA_resumed", "playB_resumed"}
C18_FailedPlayStep ==
  lastOp'.op \in PlayHandlers =>
    /\ lastOp'.ret \notin {"throws", "rejects"}
    /\ audioElement'.paused = audioElement.paused
    /\ \A d \in DOMAIN audio : audio'[d].paused = audio[d].paused

C18_PlayNeverFails == [][C18_FailedPlayStep]_vars

\* C19: the EQ mirror. Once the graph is built, the published gains are the
\* stored vector of the active slot, and the gain of live filter i is the
\* published gains[i], except while the EQ is bypassed, when the gain the
\* EQ applies to the signal is neutral (0 dB) in every band
EqBuilt == Len(filters) = EQ_BANDS
PublishedGains == IF IsEngine THEN state.gains ELSE mixer.eqGains
EqBypassed == IF IsEngine THEN state.isBypassed ELSE eqBypass
EqInPath ==
  IF IsEngine THEN <<"sourceNode", FirstFilter>> \in connections
  ELSE <<"sourceA", FirstFilter>> \in connections
AudibleGain(i) == IF EqInPath THEN filters[i + 1] ELSE 0
ActiveSlotGains ==
  IF state.activeSlot = "A" THEN state.slotAGains ELSE state.slotBGains

C19_EqMirror ==
  EqBuilt =>
    /\ IsEngine => state.gains = ActiveSlotGains
    /\ IF EqBypassed
         THEN \A i \in 0 .. (EQ_BANDS - 1) : AudibleGain(i) = 0
         ELSE \A i \in 0 .. (EQ_BANDS - 1) :
                filters[i + 1] = At(PublishedGains, i)

\* C20: band gain writes during bypass are inaudible. A setBandGain(i, g)
\* made while the EQ is bypassed is stored in the published gain vector,
\* the gain the EQ applies to the signal stays neutral in every band for as
\* long as the bypass is on, and once the bypass is off the stored gain of
\* each band is the gain the signal gets
Bands == 0 .. (EQ_BANDS - 1)
SetsBand(i, g) == setBandGainTo(i, g) \/ setEqGainTo(i, g)
C20_BypassStep ==
  EqBuilt' =>
    /\ \A i \in Bands, g \in GainInputs :
         (EqBuilt /\ EqBypassed /\ SetsBand(i, g)) =>
           At(PublishedGains', i) = g
    /\ EqBypassed' => \A i \in Bands : AudibleGain(i)' = 0
    /\ ~EqBypassed' => \A i \in Bands : AudibleGain(i)' = At(PublishedGains', i)

C20_BypassedWritesInaudible == [][C20_BypassStep]_vars

\* C21: the capture tap is permanent. In every state after the graph is
\* built, whatever setSafeMode and the other reconnects did, the output of
\* the master gain is connected to the destination and to the capture sink,
\* and nothing else feeds the capture sink: what is captured is the signal
\* after the master gain
GraphExists == IF IsEngine THEN graphBuilt ELSE audioContext # "null"
CaptureFeeds == {e[1] : e \in {c \in connections : c[2] = "mediaStreamDest"}}
C21_CaptureTap ==
  GraphExists =>
    /\ <<"masterGain", "destination">> \in connections
    /\ CaptureFeeds = {"masterGain"}

\* C22: a state snapshot is immutable. The state object delivered at
\* subscribe time, delivered by a notification or returned by getState
\* reads, after any later operation or sync tick, what it read when it was
\* handed over: its scalar fields, its hot cues and its gain vectors
C22_SnapshotImmutable ==
  snapshot.taken => Reads(snapshot, state) = snapshot.seen

\* C23: the scene store / recall round trip. storeScene(tag) puts the five
\* current parameters into scene[tag] and leaves them as they are; no other
\* operation changes a stored scene; recallScene(tag) makes the five
\* parameters equal to scene[tag] and sets activeScene = tag. So a recall
\* after a store and any parameter writes restores the values of store
\* time
Tags == {"A", "B"}
StoresScene(tag) == storeDjSceneAs(tag) \/ storeDjScenePAs(tag)
RecallsScene(tag) ==
  loadDjSceneOf(tag) \/ applyDjPresetOf(Scene(state, dj, tag))
C23_SceneStep ==
  /\ \A tag \in Tags :
       StoresScene(tag) =>
         /\ Scene(state', dj', tag) = DjParams(state, deck.A, dj)
         /\ DjParams(state', deck'.A, dj') = DjParams(state, deck.A, dj)
  /\ \A tag \in Tags :
       (\A t \in Tags : ~StoresScene(t)) =>
         Scene(state', dj', tag) = Scene(state, dj, tag)
  /\ \A tag \in Tags :
       RecallsScene(tag) =>
         /\ DjParams(state', deck'.A, dj') = Scene(state, dj, tag)
         /\ ActiveScene(state', dj') = tag

C23_SceneRoundTrip == [][C23_SceneStep]_vars

\* C24: the filter mapping. Writing a filter value v in [-100, 100] makes
\* the live DJ filter a lowpass when v <= 0 and a highpass when v > 0:
\* lowpass at 20000 Hz for v = 0, lowpass at 200 Hz for v = -100, highpass
\* at 8000 Hz for v = 100, a lowpass cutoff never above 20000 Hz and a
\* highpass cutoff never above 8000 Hz, whatever was written before
WritesFilter(v) == setDjFilterValueTo(v) \/ setFilterMacroTo(v)
\* freq <= cap Hz; a power left as a term is below its cap exactly when its
\* exponent is below 1
AtMost(freq, cap) ==
  IF freq[1] = "hz" THEN freq[2] <= cap * Unit ELSE freq[4] < 100 * Unit
C24_FilterStep ==
  \A v \in FilterInputs :
    (/\ WritesFilter(v) /\ fxNodes.built
     /\ (-100) * Unit <= v /\ v <= 100 * Unit) =>
      LET f == fxNodes'.djFilter
      IN  /\ f.type = IF v <= 0 THEN "lowpass" ELSE "highpass"
          /\ v = 0 => f.frequency = Hz(20000)
          /\ v = (-100) * Unit => f.frequency = Hz(200)
          /\ v = 100 * Unit => f.frequency = Hz(8000)
          /\ AtMost(f.frequency, IF v <= 0 THEN 20000 ELSE 8000)

C24_FilterMapping == [][C24_FilterStep]_vars

\* C25: the equal-power crossfade. For every crossfader position x in
\* [0, 1], once the deck gain nodes exist, the deck gains are
\* (cos(x * pi / 2), sin(x * pi / 2)): the sum of their squares is 1 within
\* tolerance (0.2%), they are (1, 0) at x = 0 and (0, 1) at x = 1, and
\* moving the crossfader up lowers the gain of deck A and raises the gain of
\* deck B
SumOfSquares(gains) ==
  GainValue(gains.A) * GainValue(gains.A)
    + GainValue(gains.B) * GainValue(gains.B)
InFaderRange(x) == 0 <= x /\ x <= 10
C25_CrossfadeStep ==
  (IsProvider /\ audioContext' # "null" /\ InFaderRange(mixer'.crossfader)) =>
    /\ deckGain' = [A |-> <<"cos", mixer'.crossfader>>,
                    B |-> <<"sin", mixer'.crossfader>>]
    /\ SumOfSquares(deckGain') \in 998000 .. 1002000
    /\ mixer'.crossfader = 0 =>
         GainValue(deckGain'.A) = 1000 /\ GainValue(deckGain'.B) = 0
    /\ mixer'.crossfader = 10 =>
         GainValue(deckGain'.A) = 0 /\ GainValue(deckGain'.B) = 1000
    /\ (/\ audioContext # "null" /\ InFaderRange(mixer.crossfader)
        /\ mixer.crossfader < mixer'.crossfader) =>
         /\ GainValue(deckGain'.A) < GainValue(deckGain.A)
         /\ GainValue(deckGain'.B) > GainValue(deckGain.B)

C25_EqualPower == [][C25_CrossfadeStep]_vars

\* C26: racing initialisation is safe. However play() and loadFile() calls
\* of the class engine that are in flight together interleave (each
\* suspended at the await of ensureAudioContext, and the deferred build
\* loadFile schedules), one audio context is made, one media source node is
\* made, and the graph is built and connected once: a build makes one source
\* node and connects once, so the source nodes made count the builds. A
\* play() or a deferred build that has run with the element attached leaves
\* the graph built.
RacingCalls == {"play_resumed", "loadFile_timeout"}
NodesOf(st) ==
  [built |-> TRUE, djFilter |-> filterMapping(st.djFilterValue),
   delayTime |-> st.echoTime, feedbackGain |-> st.echoFeedback,
   mixGain |-> st.echoMix]
C27_NodesMirrorState ==
  (IsEngine /\ graphBuilt) =>
    /\ fxNodes = NodesOf(state)
    /\ masterGain = state.volume

\* C28: a morph replaces the morph in flight. At any time at most one frame
\* callback chain is pending, it is the chain of the morph started last (no
\* frame of an earlier morph is left to run), and a morph starts from the
\* parameter values current at the moment it is issued.
StartsMorph == lastMorph'.count # lastMorph.count
C28_MorphStep ==
  /\ Cardinality(raf') <= 1
  /\ \A f \in raf' : /\ f.id = morphAnimationId'
                      /\ f.startParams = lastMorph'.startParams
                      /\ f.endParams = lastMorph'.endParams
                      /\ f.target = lastMorph'.target
  /\ StartsMorph => lastMorph'.startParams = DjParams(state, deck.A, dj)

C28_MorphRestarts == [][C28_MorphStep]_vars

\* C29: isMorphing is true exactly when a morph frame callback is pending.
\* In every reachable state, after morph completion, cancelMorph, a
\* restarted morph and destroy() included, isMorphing holds if and only if
\* the morph animation handle is set and the callback it names is waiting
\* for a frame.
MorphFramePending ==
  /\ morphAnimationId # null
  /\ \E f \in raf : f.id = morphAnimationId
C29_MorphingIffPending == IsMorphing(state, dj) <=> MorphFramePending

\* C30: a second stop request during finalisation is harmless. After a stop
\* of a recording and before the recorder's stop event has been delivered,
\* a further stopRecording() or toggleRecording() neither throws nor starts
\* a new recording.
Finalising ==
  mediaRecorder # <<>> /\ mediaRecorder[Len(mediaRecorder)].stopping
StopRequest == stopRecording \/ toggleRecording \/ stopRecordingP
C30_SecondStopStep ==
  (Finalising /\ StopRequest) =>
    /\ lastOp'.ret # "throws"
    /\ mediaRecorder' = mediaRecorder
    /\ IsRecording' => IsRecording

C30_SecondStopHarmless == [][C30_SecondStopStep]_vars

\* C30, the outcome: unless another recording is started meanwhile, a
\* recording that is being finalised reaches isRecording = false with a
\* blob that is not null
C30_EventuallyFinalised ==
  \A n \in 1 .. MaxRecorders :
    (Finalising /\ Len(mediaRecorder) = n)
      ~> \/ ~IsRecording /\ ~RecordingBlob.isNull
         \/ Len(mediaRecorder) # n

\* C31: togglePlay is a true toggle. Two togglePlay() calls made back to
\* back, no sync tick or media event between them, leave the deck
\* playing if it was playing and paused if it was paused, once the play
\* requests they made have run.
Playing(d) ==
  IF IsEngine THEN audioElement.attached /\ ~audioElement.paused
              ELSE ~audio[d].paused
PlaysPending(d) == IF IsEngine THEN tasks["play"] ELSE tasks["play" \o d]
C31_TrueToggle ==
  \A d \in Decks :
    (toggled[d].calls = 2 /\ PlaysPending(d) = 0) =>
      Playing(d) = toggled[d].wasPlaying

\* C32: operations the environment is not ready for are silent no-ops.
\* buildAudioGraph called before the context or the element exists, and
\* setEqBypass, setDjBypass, setSafeMode called before the source node (in
\* the provider: the context and its nodes) exists, throw nothing and make
\* or change no node and no connection; and the first build made once the
\* element and the context exist, the gains all being numbers, builds the
\* graph.
GraphNodes ==
  <<audioContext, graphBuilt, sourceNode, sourceNodeRef, connections,
    filters, masterGain, deckGain, fxNodes>>
UnreadyCall ==
  \/ buildAudioGraph /\ (~audioElement.attached \/ audioContext = "null")
  \/ (setEqBypass \/ setDjBypass \/ setSafeMode) /\ sourceNode = 0
  \/ (setEqBypassP \/ setFxBypassP \/ setSafeModeP) /\ audioContext = "null"
ReadyBuild ==
  /\ buildAudioGraph \/ play_resumed \/ loadFile_timeout
  /\ BuildGuard(audioElement, audioContext', graphBuilt)
  /\ sourceNode = 0
  /\ \A i \in 0 .. (EQ_BANDS - 1) : At(state.gains, i) # null
C32_UnreadyStep ==
  /\ UnreadyCall => (lastOp'.ret \notin Failures /\ UNCHANGED GraphNodes)
  /\ ReadyBuild =>
       /\ lastOp'.ret # "throws" /\ graphBuilt' /\ sourceNode' = 1
       /\ connections' = ConnectGraph(FilterChain, state')

C32_UnreadyNoOp == [][C32_UnreadyStep]_vars

\* buildAudioGraph has been called with the element attached and no context
\* yet: nothing was built
C32_Witness ==
  /\ IsEngine /\ lastOp.op = "buildAudioGraph" /\ lastOp.ret = "void"
  /\ audioElement.attached /\ audioContext = "null"
  /\ ~graphBuilt /\ sourceNode = 0 /\ connections = {}

\* C33: hot cue slots are a fixed-size array. After every step hotCues has
\* exactly 4 slots; setHotCue(i) with i in 0..3 overwrites slot i alone,
\* with the current time; setHotCue / clearHotCue with an index outside
\* 0..3 leave the whole state as it was.
ProgramState ==
  <<tasks, audioElement, audioContext, graphBuilt, sourceNode, connections,
    state, audio, deck, sourceNodeRef, eqBypass, fxBypass, safeMode, dj, now,
    raf, nextRafId, morphAnimationId, filters, masterGain, deckGain, mixer,
    mediaRecorder, recordedChunks, recordingStartTime, recording, snapshot,
    fxNodes, stateLoop>>
OnlySlot(before, after, index, time) ==
  /\ DOMAIN after = DOMAIN before
  /\ after[index] = time
  /\ \A j \in DOMAIN before : j # index => after[j] = before[j]
C33_CueStep ==
  /\ DOMAIN state'.hotCues = CueSlots
  /\ \A d \in Decks : DOMAIN deck'[d].hotCues = CueSlots
  /\ \A index \in CueIndexes :
       /\ (setHotCueAt(index) /\ index \in CueSlots)
            => /\ OnlySlot(state.hotCues, state'.hotCues, index,
                           state.currentTime)
               /\ state' = [state EXCEPT !.hotCues = state'.hotCues]
       /\ ((setHotCueAt(index) \/ clearHotCueAt(index)) /\ index \notin CueSlots)
            => UNCHANGED ProgramState
       /\ \A d \in Decks :
            /\ (setHotCueDAt(d, index) /\ index \in CueSlots)
                 => /\ \E time \in {deck[d].currentTime, audio[d].currentTime} :
                         OnlySlot(deck[d].hotCues, deck'[d].hotCues, index, time)
                    /\ deck' = [deck EXCEPT ![d].hotCues = deck'[d].hotCues]
            /\ (setHotCueDAt(d, index) /\ index \notin CueSlots)
                 => UNCHANGED ProgramState
C33_FixedSlots == [][C33_CueStep]_vars

\* C34: the crossfade law is in force whenever the deck gain nodes exist,
\* from their creation on: deck gain A is cos(crossfader * pi / 2) and deck
\* gain B is sin(crossfader * pi / 2) of the current crossfader, (1, 0) at
\* crossfader 0 and (0, 1) at crossfader 1.
DeckGainsExist == IsProvider /\ audioContext # "null"
CrossfadeLaw(gains, x) ==
  /\ gains = [A |-> <<"cos", x>>, B |-> <<"sin", x>>]
  /\ x = 0 => GainValue(gains.A) = 1000 /\ GainValue(gains.B) = 0
  /\ x = 10 => GainValue(gains.A) = 0 /\ GainValue(gains.B) = 1000
C34_LawInForce ==
  (DeckGainsExist /\ InFaderRange(mixer.crossfader)) =>
    CrossfadeLaw(deckGain, mixer.crossfader)

\* C35: sync tick publication. After each frame of the state loop the
\* published currentTime, duration and isPlaying are the values the frame
\* sampled from the element, and the frame has notified the subscribers if
\* and only if it changed a published value.
Published(st) == <<st.currentTime, st.duration, st.isPlaying>>
Sampled(el) == <<el.currentTime, DurationOf(el), ~el.paused>>
NotifiedIffChanged == (lastOp'.notified > 0) <=> (state' # state)
C35_TickStep ==
  update =>
    /\ audioElement.attached => Published(state') = Sampled(audioElement)
    /\ NotifiedIffChanged
C35_TickPublishes == [][C35_TickStep]_vars

\* C35, amended: the published duration is the sampled one when that is
\* finite, and 0 when it is not (no metadata yet); the rest as stated.
SampledFinite(el) ==
  <<el.currentTime, FiniteOrZero(DurationOf(el)), ~el.paused>>
C35_FiniteTickStep ==
  update =>
    /\ audioElement.attached =>
         Published(state') = SampledFinite(audioElement)
    /\ NotifiedIffChanged
C35_TickPublishesFinite == [][C35_FiniteTickStep]_vars

\* a frame has published a position the media clock had advanced to and
\* has notified; the frame before it found nothing to publish
C35_Witness ==
  /\ lastOp.op = "update" /\ lastOp.notified = 1
  /\ audioElement.attached /\ ~audioElement.paused
  /\ state.isPlaying /\ state.currentTime > 0
  /\ state.currentTime = audioElement.currentTime
C35_QuietWitness ==
  /\ lastOp.op = "update" /\ lastOp.notified = 0 /\ audioElement.attached

\* C36: parameter writes never change topology. setVolume, setBandGain,
\* setAllGains, setPlaybackRate, setDjFilterValue, setEchoMix, setEchoTime,
\* setEchoFeedback, the recall of a scene and the frames of a morph leave
\* the set of connections as it was; a step that changes it is a build or
\* one of setEqBypass, setDjBypass and setSafeMode.
ParameterWrite ==
  \/ setVolume \/ setBandGain \/ setAllGains
  \/ setPlaybackRate \/ setDjFilterValue \/ setEchoMix \/ setEchoTime
  \/ setEchoFeedback \/ loadDjScene \/ applyBuiltInDjScene \/ animate
TopologyCall ==
  \/ buildAudioGraph \/ play_resumed \/ loadFile_timeout
  \/ setEqBypass \/ setDjBypass \/ setSafeMode
C36_TopologyStep ==
  IsEngine =>
    \/ connections' = connections
    \/ ~ParameterWrite /\ TopologyCall
C36_WritesKeepTopology == [][C36_TopologyStep]_vars

\* a frame of a morph has written interpolated parameters to the nodes of a
\* built graph whose DJ section is bypassed
C36_Witness ==
  /\ IsEngine /\ lastOp.op = "animate" /\ lastMorph.frames > 0
  /\ lastMorph.progress > 0
  /\ graphBuilt /\ state.djBypass
  /\ connections = ConnectGraph(FilterChain, state)
  /\ getCurrentDjParams(state) # lastMorph.startParams

\* C37: the EQ slots A and B are independent. A band gain write made while
\* slot X is active leaves the stored vector of the other slot as it was,
\* and from the state any step leaves, switching to the other slot and back
\* restores the published gains and the live filter gains to exactly the
\* values they had before the first switch.
OtherSlot(slot) == IF slot = "A" THEN "B" ELSE "A"
OtherSlotGains(st) ==
  IF st.activeSlot = "A" THEN st.slotBGains ELSE st.slotAGains
OtherPreset(m) ==
  IF m.activeEqPreset = "A" THEN m.eqPresetB ELSE m.eqPresetA
ThereAndBack(st, live) ==
  LET there == SwitchedSlot(st, live, OtherSlot(st.activeSlot))
  IN  SwitchedSlot(there.state, there.filters, st.activeSlot)
ThereAndBackP(m, live) ==
  LET there == ActivatedPreset(m, live, OtherSlot(m.activeEqPreset))
  IN  ActivatedPreset(there.mixer, there.filters, m.activeEqPreset)
WritesKeepOtherSlot ==
  /\ (setBandGain \/ setAllGains) =>
       OtherSlotGains(state') = OtherSlotGains(state)
  /\ (setEqGain \/ applyBuiltinPreset) =>
       OtherPreset(mixer') = OtherPreset(mixer)
EngineRoundTrip ==
  IsEngine =>
    /\ ThereAndBack(state', filters').state.gains = state'.gains
    /\ ThereAndBack(state', filters').filters = filters'
ProviderRoundTrip ==
  IsProvider =>
    /\ ThereAndBackP(mixer', filters').mixer.eqGains = mixer'.eqGains
    /\ ThereAndBackP(mixer', filters').filters = filters'
C37_SlotStep == WritesKeepOtherSlot /\ EngineRoundTrip /\ ProviderRoundTrip
C37_SlotsIndependent == [][C37_SlotStep]_vars
====
